---- MODULE Spec2Model ----
(***************************************************************************)
(* Job lifecycle of model-trainer: the training orchestrator (API side),   *)
(* the RQ queue adapter, the shared Redis state store and the worker       *)
(* functions process_train_job / process_eval_job.                         *)
(*                                                                         *)
(* The API process and the worker process share only the state store and  *)
(* the queue, so every handler is split at the store/queue operations it   *)
(* performs: one action per operation, in the order of the source.        *)
(* The state store is assumed reachable (r.set / r.get do not raise).     *)
(***************************************************************************)
EXTENDS Integers, Sequences, FiniteSets, TLC

\* ---------------------------------------------------------------- bounds
MaxQueue == 1          \* jobs a producer may have waiting in the RQ queue
MaxEpochs == 1         \* num_epochs of a train request is 1..MaxEpochs
MaxBatches == 1        \* batches the dataloader yields per epoch: 0..MaxBatches

\* ------------------------------------------------------ program constants
RetryMax == 1          \* RQConfig.retry_max
HeartbeatEvery == 10   \* train_prepared_gpt2: heartbeat when step % 10 == 0

\* ------------------------------------------------------------ value sets
Families == {"gpt2"}
Sizes == {"small"}
Splits == {"validation", "test"}
\* The values int(time.time()) takes; the wall time is an input of the
\* program (it is not monotonic).
Times == {0}

\* run_id = f"{model_family}-{model_size}-{ts}"
RunIds == Families \X Sizes \X Times

\* An optional value (Python's `x | None`) is a sequence of length 0 or 1.
None == << >>
Some(v) == << v >>

\* str(ts) as the worker stores it, and float(raw) as get_status parses it.
StrOfFloat(ts) == << "float", ts >>
FloatOfStr(s) == s[2]

\* --------------------------------------------------------------- key layout
STATUS_KEY_PREFIX == "runs:status:"
HEARTBEAT_KEY_PREFIX == "runs:hb:"
EVAL_KEY_PREFIX == "runs:eval:"
MSG_KEY_PREFIX == "runs:msg:"

\* A key is <<prefix, id, suffix>>: f"{prefix}{id}{suffix}".
StatusKey(run_id) == << STATUS_KEY_PREFIX, run_id, "" >>
HeartbeatKey(run_id) == << HEARTBEAT_KEY_PREFIX, run_id, "" >>
MsgKey(run_id) == << MSG_KEY_PREFIX, run_id, "" >>
EvalKey(run_id) == << EVAL_KEY_PREFIX, run_id, "" >>
CancelKey(run_id) == << "runs:", run_id, ":cancelled" >>

VARIABLES
    registry,   \* TrainingOrchestrator._models: None or Some(set of families)
    store,      \* Redis: function from the keys that exist to their values
    queue,      \* RQ queue: sequence of job payloads visible to the worker
    rundirs,    \* run directories made by RunStore.create_run
    weights,    \* runs whose model directory holds saved weights
    manifests,  \* runs whose model directory holds manifest.json
    api,        \* the API request in flight (between two store/queue calls)
    w,          \* the worker: the job being executed and its position
    last,       \* the step just taken and what it returned or raised
    dbc,        \* DataBankClient: the call in progress and its position
    http,       \* what that call has done on the wire: requests and sleeps
    dest,       \* the local file `dest`: None, or Some(its bytes)
    remote,     \* the file the data bank serves: its bytes and its ETag
    rr,         \* get_with_retry / set_with_retry: the call in progress
    cf,         \* CorpusFetcher.fetch: the call in progress and its position
    cache_dir,  \* the fetcher's cache: {file_id}.txt and {file_id}.tmp
    cc,         \* CorpusCacheCleanupService.clean: the pass in progress
    disk,       \* the corpus cache directory's entries and the disk's free bytes
    tc,         \* TokenizerCleanupService.clean: the pass in progress
    tok,        \* tokenizer directories, run manifests and the clock
    ac          \* cleanup_run_artifacts: the call in progress

vars == << registry, store, queue, rundirs, weights, manifests, api, w, last,
           dbc, http, dest, remote, rr, cf, cache_dir, cc, disk, tc, tok, ac >>

\* The run lifecycle's state, and the state of the clients it does not touch.
runVars == << registry, store, queue, rundirs, weights, manifests, api, w, last >>
svcVars == << cf, cache_dir, cc, disk, tc, tok, ac >>
clientVars == << dbc, http, dest, remote, rr, cf, cache_dir, cc, disk, tc, tok, ac >>

\* ------------------------------------------------------------- state store
\* redis GET: None when the key does not exist.
RedisGet(s, key) == IF key \in DOMAIN s THEN Some(s[key]) ELSE None

\* redis SET: creates or overwrites the single value of the key.
RedisSet(s, key, value) ==
    [k \in DOMAIN s \cup {key} |-> IF k = key THEN value ELSE s[k]]

ApiIdle == [pc |-> "idle"]
WorkerIdle == [pc |-> "idle"]
ClientIdle == [pc |-> "idle"]

\* A cleanup service that has not been constructed.
ServiceNone == [pc |-> "none"]

\* No fetch and no cleanup pass is in progress; the directories are empty.
ServicesInit ==
    /\ cf = ClientIdle
    /\ cache_dir = [final |-> None, tmp |-> None]
    /\ cc = ServiceNone
    /\ disk = [kind |-> "missing", entries |-> {}, free_bytes |-> 0]
    /\ tc = ServiceNone
    /\ tok = [kind |-> "missing", dirs |-> {}, runs |-> {}, now |-> 0]
    /\ ac = ServiceNone

\* No client call is in progress and there are no files.
ClientsInit ==
    /\ ServicesInit
    /\ dbc = ClientIdle
    /\ http = << >>
    /\ dest = None
    /\ remote = [content |-> << >>, etag |-> << "", << >> >>]
    /\ rr = ClientIdle

Init ==
    /\ ClientsInit
    /\ registry \in {None, Some({}), Some({"gpt2"})}
    /\ store = << >>
    /\ queue = << >>
    /\ rundirs = {}
    /\ weights = {}
    /\ manifests = {}
    /\ api = ApiIdle
    /\ w = WorkerIdle
    /\ last = [op |-> "init"]

\* ------------------------------------------------------------- inputs
\* TrainRequest (api/schemas/runs.py): the fields the lifecycle depends on.
\* num_epochs is copied unread from the request to the payload and to the
\* training loop, so its value is drawn where train_prepared_gpt2 reads it.
TrainRequests ==
    [model_family : Families, model_size : Sizes,
     corpus_path : {None, Some("/corpus")},
     corpus_file_id : {None, Some("deadbeef")}]

\* EvaluateRequest: split (path_override is carried but never read).
EvaluateRequests == [split : Splits]

\* Mutant: the membership test is missing, every name is accepted.
ModelRegistryHas_any(reg, name) == TRUE

\* ModelRegistry.get: raises KeyError unless the name is a registered backend.
ModelRegistryHas(reg, name) == name \in reg

\* RunStore.create_run: the run id is built from family, size and time.time().
create_run(model_family, model_size, ts) == << model_family, model_size, ts >>

\* TrainJobPayload as enqueue_training builds it: no "user_id" key, and
\* request.corpus_path copied from the request (None when absent).
TrainPayload(run_id, req) ==
    [kind |-> "train", run_id |-> run_id, user_id |-> FALSE,
     corpus_path |-> req.corpus_path,
     retries_left |-> RetryMax]

\* EvalJobPayload as enqueue_evaluation builds it.
EvalPayload(run_id, req) ==
    [kind |-> "eval", run_id |-> run_id, split |-> req.split,
     retries_left |-> RetryMax]

\* Mutant: the adapter drops the train job and reports it as taken.
enqueue_train_dropped(q, payload) == q

\* RQEnqueuer.enqueue_train / enqueue_eval: the job becomes visible to the
\* worker polling the queue, with Retry(max=retry_max).
enqueue_train(q, payload) == Append(q, payload)
enqueue_eval(q, payload) == Append(q, payload)

\* EvalCache(...).model_dump_json()
EvalCache(status, split, loss, ppl, artifact) ==
    [status |-> status, split |-> split, loss |-> loss, ppl |-> ppl,
     artifact |-> artifact]

\* EvaluateResponse
EvaluateResponse(run_id, split, status, loss, perplexity, artifact_path) ==
    [run_id |-> run_id, split |-> split, status |-> status, loss |-> loss,
     perplexity |-> perplexity, artifact_path |-> artifact_path]

\* ------------------------------------------------- TrainingOrchestrator
\* Mutant: the status record is not looked up; every run is taken to exist.
run_missing_never(s, run_id) == FALSE

\* enqueue_evaluation, lines 103-104: self._redis.get(key) is None
run_missing(s, run_id) == RedisGet(s, StatusKey(run_id)) = None

\* Mutant: the record is written with the default split, not the requested.
queued_eval_cache_default_split(req) ==
    EvalCache("queued", "validation", None, None, None)

\* enqueue_evaluation, line 120: the record of a queued evaluation.
queued_eval_cache(req) == EvalCache("queued", req.split, None, None, None)

\* Mutant: the artifact pointer of the record is not passed on.
evaluation_response_no_artifact(run_id, cache) ==
    EvaluateResponse(run_id, cache.split, cache.status, cache.loss, cache.ppl, None)

\* get_evaluation, lines 137-145: the response built from the stored record.
evaluation_response(run_id, cache) ==
    EvaluateResponse(run_id, cache.split, cache.status, cache.loss, cache.ppl,
                     cache.artifact)

\* Mutant: the heartbeat key is never read.
heartbeat_of_never(hb_raw) == None

\* get_status, line 97: float(hb_raw) if hb_raw is not None else None
heartbeat_of(hb_raw) == IF hb_raw # None THEN Some(FloatOfStr(hb_raw[1])) ELSE None

\* enqueue_training, lines 53-83: registry validation, create_run, and the
\* hand-over of the job to the queue adapter.
enqueue_training_begin(req, ts) ==
    /\ api.pc = "idle"
    /\ IF registry # None /\ ~ModelRegistryHas(registry[1], req.model_family)
       THEN /\ last' = [op |-> "enqueue_training", req |-> req,
                        error |-> "CONFIG_INVALID"]
            /\ UNCHANGED << store, queue, rundirs, api >>
       ELSE LET run_id == create_run(req.model_family, req.model_size, ts)
            IN /\ rundirs' = rundirs \cup {run_id}
               /\ \/ /\ Len(queue) < MaxQueue
                     /\ queue' = enqueue_train(queue, TrainPayload(run_id, req))
                     /\ api' = [pc |-> "train_enqueued", run_id |-> run_id,
                                req |-> req]
                     /\ last' = [op |-> "enqueue_training_enqueued",
                                 req |-> req, run_id |-> run_id]
                  \/ /\ last' = [op |-> "enqueue_training", req |-> req,
                                 error |-> "BROKER_UNREACHABLE"]
                     /\ UNCHANGED << queue, api >>
               /\ UNCHANGED store
    /\ UNCHANGED << registry, weights, manifests, w >>
    /\ UNCHANGED clientVars

\* enqueue_training, lines 84-87: the status write and the return.
enqueue_training_end ==
    /\ api.pc = "train_enqueued"
    /\ store' = RedisSet(store, StatusKey(api.run_id), "queued")
    /\ api' = ApiIdle
    /\ last' = [op |-> "enqueue_training", req |-> api.req,
                error |-> "", run_id |-> api.run_id]
    /\ UNCHANGED << registry, queue, rundirs, weights, manifests, w >>
    /\ UNCHANGED clientVars

\* get_status, lines 90-95: the status read.
get_status_begin(run_id) ==
    /\ api.pc = "idle"
    /\ LET status_v == RedisGet(store, StatusKey(run_id))
       IN IF status_v = None
          THEN /\ last' = [op |-> "get_status", run_id |-> run_id,
                           error |-> "DATA_NOT_FOUND"]
               /\ UNCHANGED api
          ELSE /\ api' = [pc |-> "status_read", run_id |-> run_id,
                          status_v |-> status_v[1]]
               /\ last' = [op |-> "get_status_read", run_id |-> run_id]
    /\ UNCHANGED << registry, store, queue, rundirs, weights, manifests, w >>
    /\ UNCHANGED clientVars

\* get_status, lines 96-98: the heartbeat read and the response.
get_status_end ==
    /\ api.pc = "status_read"
    /\ LET hb_raw == RedisGet(store, HeartbeatKey(api.run_id))
           hb == heartbeat_of(hb_raw)
       IN last' = [op |-> "get_status", run_id |-> api.run_id, error |-> "",
                   status |-> api.status_v, last_heartbeat_ts |-> hb]
    /\ api' = ApiIdle
    /\ UNCHANGED << registry, store, queue, rundirs, weights, manifests, w >>
    /\ UNCHANGED clientVars

\* enqueue_evaluation, lines 103-119: the status check and the hand-over of
\* the eval job to the queue adapter.
enqueue_evaluation_begin(run_id, req) ==
    /\ api.pc = "idle"
    /\ IF run_missing(store, run_id)
       THEN /\ last' = [op |-> "enqueue_evaluation", run_id |-> run_id,
                        req |-> req, error |-> "",
                        out |-> EvaluateResponse(run_id, req.split, "failed",
                                                 None, None, None)]
            /\ UNCHANGED << queue, api >>
       ELSE \/ /\ Len(queue) < MaxQueue
               /\ queue' = enqueue_eval(queue, EvalPayload(run_id, req))
               /\ api' = [pc |-> "eval_enqueued", run_id |-> run_id, req |-> req]
               /\ last' = [op |-> "enqueue_evaluation_enqueued",
                           run_id |-> run_id, req |-> req]
            \/ /\ last' = [op |-> "enqueue_evaluation", run_id |-> run_id,
                           req |-> req, error |-> "BROKER_UNREACHABLE"]
               /\ UNCHANGED << queue, api >>
    /\ UNCHANGED << registry, store, rundirs, weights, manifests, w >>
    /\ UNCHANGED clientVars

\* enqueue_evaluation, lines 120-128: the write of the queued record.
enqueue_evaluation_end ==
    /\ api.pc = "eval_enqueued"
    /\ store' = RedisSet(store, EvalKey(api.run_id), queued_eval_cache(api.req))
    /\ api' = ApiIdle
    /\ last' = [op |-> "enqueue_evaluation", run_id |-> api.run_id,
                req |-> api.req, error |-> "",
                out |-> EvaluateResponse(api.run_id, api.req.split, "queued",
                                         None, None, None)]
    /\ UNCHANGED << registry, queue, rundirs, weights, manifests, w >>
    /\ UNCHANGED clientVars

\* get_evaluation, lines 130-145.
get_evaluation(run_id) ==
    /\ api.pc = "idle"
    /\ LET raw == RedisGet(store, EvalKey(run_id))
       IN IF raw = None
          THEN last' = [op |-> "get_evaluation", run_id |-> run_id,
                        error |-> "DATA_NOT_FOUND"]
          ELSE last' = [op |-> "get_evaluation", run_id |-> run_id,
                        error |-> "",
                        out |-> evaluation_response(run_id, raw[1])]
    /\ UNCHANGED << registry, store, queue, rundirs, weights, manifests, api, w >>
    /\ UNCHANGED clientVars

\* Mutant: cancellation is also written as a status value.
cancel_writes_status(s, run_id) ==
    RedisSet(RedisSet(s, CancelKey(run_id), "1"), StatusKey(run_id), "canceled")

\* cancel_run, line 145: r.set(f"runs:{run_id}:cancelled", "1")
cancel_writes(s, run_id) == RedisSet(s, CancelKey(run_id), "1")

\* _RunsRoutes.cancel_run (api/routes/runs.py).
cancel_run(run_id) ==
    /\ api.pc = "idle"
    /\ store' = cancel_writes(store, run_id)
    /\ last' = [op |-> "cancel_run", run_id |-> run_id, error |-> "",
                out |-> "cancellation-requested"]
    /\ UNCHANGED << registry, queue, rundirs, weights, manifests, api, w >>
    /\ UNCHANGED clientVars

\* ------------------------------------------------------------ RQ queue
\* A train payload put on the queue through RQEnqueuer.enqueue_train by a
\* producer that supplies the "user_id" key the worker reads. Its request
\* names the corpus by path, or by file id only (no "corpus_path").
submit_train_job(run_id) ==
    /\ Len(queue) < MaxQueue
    /\ \E corpus_path \in {None, Some("/corpus")} :
          queue' = enqueue_train(queue,
                     [kind |-> "train", run_id |-> run_id, user_id |-> TRUE,
                      corpus_path |-> corpus_path,
                      retries_left |-> RetryMax])
    /\ last' = [op |-> "submit_train_job", run_id |-> run_id]
    /\ UNCHANGED << registry, store, rundirs, weights, manifests, api, w >>
    /\ UNCHANGED clientVars

\* Retry(max=retry_max): a job whose function raised is put back on the
\* queue while it has retries left.
rq_retry(q, job) ==
    IF job.retries_left > 0
    THEN Append(q, [job EXCEPT !.retries_left = @ - 1])
    ELSE q

WorkerStep(fn, run_id, outcome) ==
    [op |-> "worker", fn |-> fn, run_id |-> run_id, outcome |-> outcome]

\* ------------------------------------------------------ process_train_job
\* lines 176-185: payload["user_id"], the running write and _build_cfg, all
\* before the try block.
process_train_job_start ==
    /\ w.pc = "idle"
    /\ queue # << >>
    /\ Head(queue).kind = "train"
    /\ LET job == Head(queue)
           run_id == job.run_id
       IN IF ~job.user_id
          THEN \* KeyError at line 179, before any write
               /\ queue' = rq_retry(Tail(queue), job)
               /\ last' = WorkerStep("process_train_job", run_id, "raised")
               /\ UNCHANGED << store, w >>
          ELSE /\ store' = RedisSet(store, StatusKey(run_id), "running")
               /\ IF job.corpus_path = None
                  THEN \* _build_cfg raises at line 185, outside the try block:
                       \* req["corpus_path"] is missing or None
                       /\ queue' = rq_retry(Tail(queue), job)
                       /\ last' = WorkerStep("process_train_job", run_id, "raised")
                       /\ UNCHANGED w
                  ELSE /\ queue' = Tail(queue)
                       /\ w' = [pc |-> "t_heartbeat", job |-> job]
                       /\ last' = WorkerStep("process_train_job", run_id, "running")
    /\ UNCHANGED << registry, rundirs, weights, manifests, api >>
    /\ UNCHANGED clientVars

\* line 204: _hb(time.time())
process_train_job_heartbeat(ts) ==
    /\ w.pc = "t_heartbeat"
    /\ store' = RedisSet(store, HeartbeatKey(w.job.run_id), StrOfFloat(ts))
    /\ w' = [w EXCEPT !.pc = "t_prepare"]
    /\ last' = WorkerStep("process_train_job", w.job.run_id, "running")
    /\ UNCHANGED << registry, queue, rundirs, weights, manifests, api >>
    /\ UNCHANGED clientVars

\* lines 240-254: backend lookup, tokenizer artifact, backend.prepare; then
\* train_prepared_gpt2 lines 89-120 (dataset and dataloader construction).
process_train_job_prepare ==
    /\ w.pc = "t_prepare"
    /\ \/ \E e \in 1..MaxEpochs, n \in 0..MaxBatches :
            w' = [pc |-> "t_loop", job |-> w.job, num_epochs |-> e, epoch |-> 0,
                  batch |-> 0, nbatches |-> n, step |-> 0,
                  was_cancelled |-> FALSE]
       \/ w' = [pc |-> "t_except", job |-> w.job, exc |-> "prepare failed"]
    /\ last' = WorkerStep("process_train_job", w.job.run_id, "running")
    /\ UNCHANGED << registry, store, queue, rundirs, weights, manifests, api >>
    /\ UNCHANGED clientVars

\* _cancelled(): r.get(f"runs:{run_id}:cancelled") == "1"
cancelled(s, run_id) == RedisGet(s, CancelKey(run_id)) = Some("1")

\* train_prepared_gpt2 lines 125-146: one pass through the loop head or one
\* batch.
train_prepared_gpt2_loop(ts) ==
    /\ w.pc = "t_loop"
    /\ IF w.epoch >= w.num_epochs
       THEN \* range(num_epochs) exhausted
            /\ w' = [w EXCEPT !.pc = "t_finish"]
            /\ UNCHANGED store
       ELSE IF w.batch >= w.nbatches
       THEN \* the dataloader is exhausted: next epoch
            /\ w' = [w EXCEPT !.epoch = @ + 1, !.batch = 0]
            /\ UNCHANGED store
       ELSE IF cancelled(store, w.job.run_id)
       THEN \* was_cancelled = True; break; break
            /\ w' = [w EXCEPT !.was_cancelled = TRUE, !.pc = "t_finish"]
            /\ UNCHANGED store
       ELSE \/ \* forward, backward, optimizer step; heartbeat every 10 steps
               /\ w' = [w EXCEPT !.step = @ + 1, !.batch = @ + 1]
               /\ store' = IF (w.step + 1) % HeartbeatEvery = 0
                           THEN RedisSet(store, HeartbeatKey(w.job.run_id),
                                         StrOfFloat(ts))
                           ELSE store
            \/ \* the step raises
               /\ w' = [pc |-> "t_except", job |-> w.job, exc |-> "train failed"]
               /\ UNCHANGED store
    /\ last' = WorkerStep("process_train_job", w.job.run_id, "running")
    /\ UNCHANGED << registry, queue, rundirs, weights, manifests, api >>
    /\ UNCHANGED clientVars

\* Mutant: the weights are saved whether or not the loop was cancelled.
saves_weights_always(was_cancelled) == TRUE

\* train_prepared_gpt2 lines 151-152: if not was_cancelled: save_pretrained
saves_weights(was_cancelled) == ~was_cancelled

\* train_prepared_gpt2 lines 148-188: weights are saved unless cancelled,
\* the manifest is written either way.
train_prepared_gpt2_finish ==
    /\ w.pc = "t_finish"
    /\ weights' = IF saves_weights(w.was_cancelled)
                  THEN weights \cup {w.job.run_id} ELSE weights
    /\ manifests' = manifests \cup {w.job.run_id}
    /\ w' = [w EXCEPT !.pc = "t_result"]
    /\ last' = WorkerStep("process_train_job", w.job.run_id, "running")
    /\ UNCHANGED << registry, store, queue, rundirs, api >>
    /\ UNCHANGED clientVars

\* line 264-266 / 280: the status write that follows backend.train.
process_train_job_result ==
    /\ w.pc = "t_result"
    /\ IF w.was_cancelled
       THEN /\ store' = RedisSet(store, StatusKey(w.job.run_id), "failed")
            /\ w' = [w EXCEPT !.pc = "t_cancelled_msg"]
       ELSE /\ store' = RedisSet(store, StatusKey(w.job.run_id), "completed")
            /\ w' = [w EXCEPT !.pc = "t_completed_msg"]
    /\ last' = WorkerStep("process_train_job", w.job.run_id, "running")
    /\ UNCHANGED << registry, queue, rundirs, weights, manifests, api >>
    /\ UNCHANGED clientVars

\* line 267: the cancellation message; the function then returns.
process_train_job_cancelled ==
    /\ w.pc = "t_cancelled_msg"
    /\ store' = RedisSet(store, MsgKey(w.job.run_id), "Training cancelled")
    /\ w' = WorkerIdle
    /\ last' = WorkerStep("process_train_job", w.job.run_id, "returned")
    /\ UNCHANGED << registry, queue, rundirs, weights, manifests, api >>
    /\ UNCHANGED clientVars

\* line 281: the completion message.
process_train_job_completed ==
    /\ w.pc = "t_completed_msg"
    /\ store' = RedisSet(store, MsgKey(w.job.run_id), "Training completed")
    /\ w' = [w EXCEPT !.pc = "t_save"]
    /\ last' = WorkerStep("process_train_job", w.job.run_id, "running")
    /\ UNCHANGED << registry, queue, rundirs, weights, manifests, api >>
    /\ UNCHANGED clientVars

\* lines 283-304: backend.save, after which the function returns.
process_train_job_save ==
    /\ w.pc = "t_save"
    /\ \/ /\ weights' = weights \cup {w.job.run_id}
          /\ w' = WorkerIdle
          /\ last' = WorkerStep("process_train_job", w.job.run_id, "returned")
       \/ /\ w' = [pc |-> "t_except", job |-> w.job, exc |-> "save failed"]
          /\ last' = WorkerStep("process_train_job", w.job.run_id, "running")
          /\ UNCHANGED weights
    /\ UNCHANGED << registry, store, queue, rundirs, manifests, api >>
    /\ UNCHANGED clientVars

\* line 306: the except block's status write.
process_train_job_except ==
    /\ w.pc = "t_except"
    /\ store' = RedisSet(store, StatusKey(w.job.run_id), "failed")
    /\ w' = [w EXCEPT !.pc = "t_except_msg"]
    /\ last' = WorkerStep("process_train_job", w.job.run_id, "running")
    /\ UNCHANGED << registry, queue, rundirs, weights, manifests, api >>
    /\ UNCHANGED clientVars

\* lines 308-317: the message write and the re-raise.
process_train_job_reraise ==
    /\ w.pc = "t_except_msg"
    /\ store' = RedisSet(store, MsgKey(w.job.run_id), w.exc)
    /\ queue' = rq_retry(queue, w.job)
    /\ w' = WorkerIdle
    /\ last' = WorkerStep("process_train_job", w.job.run_id, "raised")
    /\ UNCHANGED << registry, rundirs, weights, manifests, api >>
    /\ UNCHANGED clientVars

\* ------------------------------------------------------- process_eval_job
\* _EvalCacheModel(...).model_dump_json()
EvalCacheModel(status, split, loss, ppl, artifact) ==
    [status |-> status, split |-> split, loss |-> loss, ppl |-> ppl,
     artifact |-> artifact]

\* lines 330-334: the running record.
process_eval_job_start ==
    /\ w.pc = "idle"
    /\ queue # << >>
    /\ Head(queue).kind = "eval"
    /\ LET job == Head(queue)
       IN /\ store' = RedisSet(store, EvalKey(job.run_id),
                         EvalCacheModel("running", job.split, None, None, None))
          /\ queue' = Tail(queue)
          /\ w' = [pc |-> "e_manifest", job |-> job]
          /\ last' = WorkerStep("process_eval_job", job.run_id, "running")
    /\ UNCHANGED << registry, rundirs, weights, manifests, api >>
    /\ UNCHANGED clientVars

\* lines 341-397: the manifest check, then reading and validating it
\* (outside any try block).
process_eval_job_manifest ==
    /\ w.pc = "e_manifest"
    /\ IF w.job.run_id \notin manifests
       THEN /\ store' = RedisSet(store, EvalKey(w.job.run_id),
                           EvalCacheModel("failed", w.job.split, None, None, None))
            /\ w' = WorkerIdle
            /\ last' = WorkerStep("process_eval_job", w.job.run_id, "returned")
            /\ UNCHANGED queue
       ELSE \/ /\ w' = [w EXCEPT !.pc = "e_evaluate"]
               /\ last' = WorkerStep("process_eval_job", w.job.run_id, "running")
               /\ UNCHANGED << store, queue >>
            \/ \* read_text or model_validate_json raises
               /\ queue' = rq_retry(queue, w.job)
               /\ w' = WorkerIdle
               /\ last' = WorkerStep("process_eval_job", w.job.run_id, "raised")
               /\ UNCHANGED store
    /\ UNCHANGED << registry, rundirs, weights, manifests, api >>
    /\ UNCHANGED clientVars

\* lines 398-420: backend.evaluate and the final record.
process_eval_job_evaluate ==
    /\ w.pc = "e_evaluate"
    /\ \/ /\ store' = RedisSet(store, EvalKey(w.job.run_id),
                         EvalCacheModel("completed", w.job.split, Some(1), Some(1),
                                        Some("metrics.json")))
          /\ last' = WorkerStep("process_eval_job", w.job.run_id, "returned")
          /\ UNCHANGED queue
       \/ /\ store' = RedisSet(store, EvalKey(w.job.run_id),
                         EvalCacheModel("failed", w.job.split, None, None, None))
          /\ queue' = rq_retry(queue, w.job)
          /\ last' = WorkerStep("process_eval_job", w.job.run_id, "raised")
    /\ w' = WorkerIdle
    /\ UNCHANGED << registry, rundirs, weights, manifests, api >>
    /\ UNCHANGED clientVars

\* ---------------------------------------------------------- specifications
\* The training lifecycle: the API handlers that create, read and cancel a
\* run, the producers of train jobs and the worker's process_train_job.
Next ==
    \/ \E req \in TrainRequests, ts \in Times : enqueue_training_begin(req, ts)
    \/ enqueue_training_end
    \/ \E run_id \in RunIds : get_status_begin(run_id)
    \/ get_status_end
    \/ \E run_id \in RunIds : cancel_run(run_id)
    \/ \E run_id \in RunIds : submit_train_job(run_id)
    \/ process_train_job_start
    \/ \E ts \in Times : process_train_job_heartbeat(ts)
    \/ process_train_job_prepare
    \/ \E ts \in Times : train_prepared_gpt2_loop(ts)
    \/ train_prepared_gpt2_finish
    \/ process_train_job_result
    \/ process_train_job_cancelled
    \/ process_train_job_completed
    \/ process_train_job_save
    \/ process_train_job_except
    \/ process_train_job_reraise

Spec == Init /\ [][Next]_vars

\* What process_train_job executions leave behind for a run: the store keys
\* and the files of the model directory, at the points where a run can rest
\* (never enqueued, queued, running, completed, cancelled, failed in prepare).
TrainedStore(run_id, stage) ==
    LET s1 == RedisSet(<< >>, StatusKey(run_id), "queued")
        s2 == RedisSet(RedisSet(s1, StatusKey(run_id), "running"),
                       HeartbeatKey(run_id), StrOfFloat(0))
    IN CASE stage = "none" -> << >>
         [] stage = "queued" -> s1
         [] stage = "running" -> s2
         [] stage = "completed" ->
              RedisSet(RedisSet(s2, StatusKey(run_id), "completed"),
                       MsgKey(run_id), "Training completed")
         [] stage = "cancelled" ->
              RedisSet(RedisSet(s2, StatusKey(run_id), "failed"),
                       MsgKey(run_id), "Training cancelled")
         [] stage = "failed" ->
              RedisSet(RedisSet(s2, StatusKey(run_id), "failed"),
                       MsgKey(run_id), "prepare failed")

Stages == {"none", "queued", "running", "completed", "cancelled", "failed"}

InitEval ==
    /\ ClientsInit
    /\ registry = None
    /\ \E run_id \in RunIds, stage \in Stages :
          /\ store = TrainedStore(run_id, stage)
          /\ manifests = IF stage \in {"completed", "cancelled"} THEN {run_id} ELSE {}
          /\ weights = IF stage = "completed" THEN {run_id} ELSE {}
          /\ rundirs = IF stage = "none" THEN {} ELSE {run_id}
    /\ queue = << >>
    /\ api = ApiIdle
    /\ w = WorkerIdle
    /\ last = [op |-> "init"]

\* Evaluation of runs that training has left in one of these states: the
\* evaluation handlers, cancel_run, and the worker's process_eval_job.
NextEval ==
    \/ \E run_id \in RunIds, req \in EvaluateRequests :
          enqueue_evaluation_begin(run_id, req)
    \/ enqueue_evaluation_end
    \/ \E run_id \in RunIds : get_evaluation(run_id)
    \/ \E run_id \in RunIds : cancel_run(run_id)
    \/ process_eval_job_start
    \/ process_eval_job_manifest
    \/ process_eval_job_evaluate

SpecEval == InitEval /\ [][NextEval]_vars

\* ------------------------------------------------------------- properties
\* The value of a store key before and after a step.
StatusOf(s, run_id) == RedisGet(s, << "runs:status:", run_id, "" >>)

\* The step is the first part of an enqueue_training call (every action
\* records itself in last, and the call starts from an idle handler).
IsEnqueueTrainingCall ==
    /\ api.pc = "idle"
    /\ last'.op \in {"enqueue_training", "enqueue_training_enqueued"}

\* C1: the status of a run only moves forward along queued -> running ->
\* {completed | failed}: no step takes it from completed or failed to queued
\* or running, and no step takes it from running back to queued.
C1_StatusMonotonic ==
    [][\A run_id \in RunIds :
         LET before == StatusOf(store, run_id)
             after == StatusOf(store', run_id)
         IN /\ before \in {Some("completed"), Some("failed")}
                 => after \notin {Some("queued"), Some("running")}
            /\ before = Some("running") => after # Some("queued")]_vars

\* C2: enqueue_training has written status=queued by the time it hands the
\* train job to the queue adapter: in the state in which the job becomes
\* visible to the worker, the run's status is queued.
C2_QueuedBeforeEnqueue ==
    [][IsEnqueueTrainingCall /\ last'.op = "enqueue_training_enqueued"
         => StatusOf(store', last'.run_id) = Some("queued")]_vars

C4_CorpusSourceXor ==
    [][(/\ IsEnqueueTrainingCall
        /\ (last'.req.corpus_path = None) = (last'.req.corpus_file_id = None))
         => /\ last'.op = "enqueue_training"
            /\ last'.error = "CONFIG_INVALID"
            /\ store' = store
            /\ queue' = queue]_vars

HeartbeatOf(s, run_id) == RedisGet(s, << "runs:hb:", run_id, "" >>)
MessageOf(s, run_id) == RedisGet(s, << "runs:msg:", run_id, "" >>)
EvalOf(s, run_id) == RedisGet(s, << "runs:eval:", run_id, "" >>)
CancelFlagOf(s, run_id) == RedisGet(s, << "runs:", run_id, ":cancelled" >>)

\* C5: get_status raises DATA_NOT_FOUND exactly when the run has no status
\* key; otherwise it returns the status it read, with the heartbeat
\* timestamp, which is null exactly when the run has no heartbeat key, and
\* otherwise the stored timestamp. No step of get_status changes the store.
C5_GetStatus ==
    [][/\ (api.pc = "idle" /\ last'.op \in {"get_status", "get_status_read"})
            => /\ (last'.op = "get_status") = (StatusOf(store, last'.run_id) = None)
               /\ last'.op = "get_status" => last'.error = "DATA_NOT_FOUND"
               /\ last'.op = "get_status_read"
                    => Some(api'.status_v) = StatusOf(store, last'.run_id)
               /\ store' = store
       /\ (api.pc = "status_read" /\ last'.op = "get_status")
            => /\ last'.error = ""
               /\ last'.run_id = api.run_id
               /\ last'.status = api.status_v
               /\ (last'.last_heartbeat_ts = None)
                    = (HeartbeatOf(store, api.run_id) = None)
               /\ last'.last_heartbeat_ts # None
                    => StrOfFloat(last'.last_heartbeat_ts[1])
                         = HeartbeatOf(store, api.run_id)[1]
               /\ store' = store]_vars

\* C5 witness: get_status has just returned the status of a run together
\* with a heartbeat that the worker wrote.
C5_Witness ==
    /\ last.op = "get_status"
    /\ last.error = ""
    /\ last.last_heartbeat_ts # None
    /\ last.status = "running"

\* The step is the first part of an enqueue_evaluation call.
IsEnqueueEvaluationCall ==
    /\ api.pc = "idle"
    /\ last'.op \in {"enqueue_evaluation", "enqueue_evaluation_enqueued"}

\* C6: enqueue_evaluation for a run that has no status record returns a
\* response with status=failed without raising, puts no job on the queue and
\* writes nothing (so no evaluation record appears).
C6_EvalMissingRunReturnsFailed ==
    [][(IsEnqueueEvaluationCall /\ StatusOf(store, last'.run_id) = None)
         => /\ last'.op = "enqueue_evaluation"
            /\ last'.error = ""
            /\ last'.out = [run_id |-> last'.run_id, split |-> last'.req.split,
                            status |-> "failed", loss |-> None,
                            perplexity |-> None, artifact_path |-> None]
            /\ queue' = queue
            /\ store' = store]_vars

\* C6 witness: the failed response has just been returned for a run that
\* has neither a status record nor an evaluation record.
C6_Witness ==
    /\ last.op = "enqueue_evaluation"
    /\ last.error = ""
    /\ last.out.status = "failed"
    /\ StatusOf(store, last.run_id) = None
    /\ EvalOf(store, last.run_id) = None

\* C7: get_evaluation raises DATA_NOT_FOUND whenever the run has no
\* evaluation record, whether or not it has a status record; otherwise it
\* returns the fields of the stored record unchanged. It writes nothing.
C7_GetEvaluation ==
    [][last'.op = "get_evaluation"
         => LET raw == EvalOf(store, last'.run_id)
            IN /\ raw = None => last'.error = "DATA_NOT_FOUND"
               /\ raw # None
                    => /\ last'.error = ""
                       /\ last'.out.run_id = last'.run_id
                       /\ last'.out.split = raw[1].split
                       /\ last'.out.status = raw[1].status
                       /\ last'.out.loss = raw[1].loss
                       /\ last'.out.perplexity = raw[1].ppl
                       /\ last'.out.artifact_path = raw[1].artifact
               /\ store' = store]_vars

\* C7 witness: get_evaluation has just returned a completed record, with
\* its loss, perplexity and artifact.
C7_Witness ==
    /\ last.op = "get_evaluation"
    /\ last.error = ""
    /\ last.out.status = "completed"
    /\ last.out.artifact_path # None

\* The evaluation keys of a run that exist in the store.
EvalKeysOf(s, run_id) ==
    {k \in DOMAIN s : k[1] = "runs:eval:" /\ k[2] = run_id}

\* C8: enqueue_evaluation for a run with a status record either puts exactly
\* one eval job (run, requested split) on the queue or raises because the
\* broker is unreachable; when it returns, runs:eval:{run_id} holds the
\* record (queued, requested split, no results) whatever it held before, and
\* no other key has changed; no step ever leaves a run with more than one
\* evaluation record.
C8_EvalEnqueueOverwrites ==
    [][/\ (IsEnqueueEvaluationCall /\ StatusOf(store, last'.run_id) # None)
            => /\ store' = store
               /\ \/ /\ last'.op = "enqueue_evaluation_enqueued"
                     /\ Len(queue') = Len(queue) + 1
                     /\ SubSeq(queue', 1, Len(queue)) = queue
                     /\ queue'[Len(queue')].kind = "eval"
                     /\ queue'[Len(queue')].run_id = last'.run_id
                     /\ queue'[Len(queue')].split = last'.req.split
                  \/ /\ last'.op = "enqueue_evaluation"
                     /\ last'.error = "BROKER_UNREACHABLE"
                     /\ queue' = queue
       /\ (api.pc = "eval_enqueued" /\ last'.op = "enqueue_evaluation")
            => /\ last'.error = ""
               /\ last'.out.status = "queued"
               /\ last'.out.split = api.req.split
               /\ EvalOf(store', api.run_id)
                    = Some([status |-> "queued", split |-> api.req.split,
                            loss |-> None, ppl |-> None, artifact |-> None])
               /\ \A k \in (DOMAIN store \cup DOMAIN store') :
                    k # << "runs:eval:", api.run_id, "" >>
                      => RedisGet(store', k) = RedisGet(store, k)
               /\ queue' = queue
       /\ \A run_id \in RunIds : Cardinality(EvalKeysOf(store', run_id)) <= 1]_vars

\* C8 witness: enqueue_evaluation has just returned queued for the split
\* "test" and its job is on the queue.
C8_Witness ==
    /\ last.op = "enqueue_evaluation"
    /\ last.error = ""
    /\ last.out.status = "queued"
    /\ last.out.split = "test"
    /\ EvalOf(store, last.run_id) # None
    /\ EvalOf(store, last.run_id)[1].status = "queued"
    /\ \E i \in 1..Len(queue) : queue[i].kind = "eval" /\ queue[i].split = "test"

\* C9: cancel_run sets runs:{run_id}:cancelled to "1" and changes no other
\* key (status, heartbeat, message and evaluation record stay as they are),
\* puts nothing on the queue, and succeeds whether or not the run exists.
C9_CancelWritesOnlyFlag ==
    [][last'.op = "cancel_run"
         => /\ last'.error = ""
            /\ last'.out = "cancellation-requested"
            /\ CancelFlagOf(store', last'.run_id) = Some("1")
            /\ \A k \in (DOMAIN store \cup DOMAIN store') :
                 k # << "runs:", last'.run_id, ":cancelled" >>
                   => RedisGet(store', k) = RedisGet(store, k)
            /\ queue' = queue
            /\ w' = w
            /\ api' = api]_vars

\* C9 witness: cancel_run has just been called for a run that has a status,
\* a heartbeat, a message and an evaluation record.
C9_Witness ==
    /\ last.op = "cancel_run"
    /\ CancelFlagOf(store, last.run_id) = Some("1")
    /\ StatusOf(store, last.run_id) = Some("completed")
    /\ HeartbeatOf(store, last.run_id) # None
    /\ MessageOf(store, last.run_id) # None
    /\ EvalOf(store, last.run_id) # None

\* C10: when the training loop finds the cancellation flag set at a batch
\* boundary it leaves the loop without another step; from then on the
\* execution saves no weights, writes status failed (not completed), then
\* the message "Training cancelled", and returns.
C10_CancelledRunFails ==
    [][w' # w
         => /\ (/\ w.pc = "t_loop"
                /\ w.epoch < w.num_epochs
                /\ w.batch < w.nbatches
                /\ CancelFlagOf(store, w.job.run_id) = Some("1"))
                 => /\ w'.pc = "t_finish"
                    /\ w'.was_cancelled
                    /\ w'.step = w.step
            /\ (w.pc \in {"t_finish", "t_result", "t_cancelled_msg"}
                /\ w.was_cancelled)
                 => /\ weights' = weights
                    /\ StatusOf(store', w.job.run_id) # Some("completed")
                         \/ StatusOf(store, w.job.run_id) = Some("completed")
                    /\ w.pc = "t_finish" => w'.pc = "t_result" /\ w'.step = w.step
                    /\ w.pc = "t_result"
                         => /\ StatusOf(store', w.job.run_id) = Some("failed")
                            /\ w'.pc = "t_cancelled_msg"
                    /\ w.pc = "t_cancelled_msg"
                         => /\ MessageOf(store', w.job.run_id)
                                 = Some("Training cancelled")
                            /\ StatusOf(store', w.job.run_id)
                                 = StatusOf(store, w.job.run_id)
                            /\ w'.pc = "idle"
                            /\ last'.outcome = "returned"]_vars

\* C10 witness: a cancelled execution has just returned: the run is failed
\* with the message "Training cancelled" and has no saved weights.
C10_Witness ==
    /\ last.op = "worker"
    /\ last.outcome = "returned"
    /\ CancelFlagOf(store, last.run_id) = Some("1")
    /\ StatusOf(store, last.run_id) = Some("failed")
    /\ MessageOf(store, last.run_id) = Some("Training cancelled")
    /\ last.run_id \notin weights
    /\ last.run_id \in manifests

ArtifactPointerOf(s, run_id) == RedisGet(s, << "runs:artifact:", run_id, ":file_id" >>)

\* C11: in every reachable state a run whose status is completed has its
\* artifact pointer runs:artifact:{run_id}:file_id (the status is set to
\* completed only after the output was saved, uploaded and the pointer
\* written).
C11_CompletedImpliesArtifactPointer ==
    \A run_id \in RunIds :
        StatusOf(store, run_id) = Some("completed")
            => ArtifactPointerOf(store, run_id) # None

\* The step is one in which an execution of process_train_job ends by
\* raising after it has written status running: either the first step of an
\* execution whose payload carries "user_id" (the running write is made in
\* that step), or any later step.
IsTrainJobRaiseAfterRunning ==
    /\ last'.op = "worker"
    /\ last'.fn = "process_train_job"
    /\ last'.outcome = "raised"
    /\ \/ w.pc \in {"t_heartbeat", "t_prepare", "t_loop", "t_finish", "t_result",
                    "t_completed_msg", "t_save", "t_except", "t_except_msg"}
       \/ /\ w.pc = "idle"
          /\ queue # << >>
          /\ Head(queue).kind = "train"
          /\ Head(queue).user_id

\* C12: whenever an execution of process_train_job raises after its running
\* write, it leaves runs:status:{run_id} = failed and a message in
\* runs:msg:{run_id}; the status is never left at running.
C12_RaiseLeavesFailed ==
    [][IsTrainJobRaiseAfterRunning
         => /\ StatusOf(store', last'.run_id) = Some("failed")
            /\ MessageOf(store', last'.run_id) # None]_vars

\* ---------------------------------------------------------- DataBankClient
MaxBytes == 2          \* longest file
MaxRetries == 2        \* largest configured `retries`
DefaultRetries == 3    \* DataBankClient.__init__: retries: int = 3

Bytes == {"a", "b"}
Contents == UNION {[1..n -> Bytes] : n \in 0..MaxBytes}

\* hashlib.sha256(content).hexdigest(): distinct contents have distinct
\* digests.
Sha256(content) == << "sha256", content >>

\* headers_map.get("etag", ""): the response carries no ETag.
NoEtag == << "", << >> >>

\* The status codes the data bank answers with.
Statuses == {200, 404, 416, 500, 507}

\* self._retries = max(0, retries)
ClampRetries(retries) == IF retries < 0 THEN 0 ELSE retries

\* _raise_for_error: the exception class for a status >= 400.
RaiseForError(status_code) ==
    CASE status_code = 401 -> "AuthorizationError"
      [] status_code = 403 -> "ForbiddenError"
      [] status_code = 404 -> "NotFoundError"
      [] status_code = 416 -> "RangeNotSatisfiableError"
      [] status_code = 400 -> "BadRequestError"
      [] status_code = 507 -> "InsufficientStorageClientError"
      [] OTHER -> "DataBankClientError"

\* The exception classes that derive from DataBankClientError.
DataBankClientErrors ==
    {"DataBankClientError", "AuthorizationError", "ForbiddenError",
     "NotFoundError", "RangeNotSatisfiableError", "BadRequestError",
     "InsufficientStorageClientError"}

\* A request put on the wire and how it was answered: `range` is the Range
\* header's first byte, `answer` the status code of the response, or 0 when
\* the request raised httpx.TransportError.
HttpRequest(method, range, answer) ==
    [kind |-> "request", method |-> method, range |-> range, answer |-> answer,
     backoff_times |-> 0]

\* time.sleep(self._backoff * attempt), in units of self._backoff
HttpSleep(attempt) ==
    [kind |-> "sleep", method |-> "", range |-> None, answer |-> 0,
     backoff_times |-> attempt]

\* Mutant: one attempt more than `retries` allows.
retries_left_one_more(c) == c.idempotent /\ c.attempt <= c.retries

\* Mutant: the request is retried whether or not it is idempotent.
retries_left_any_method(c) == c.attempt < c.retries

\* _request, lines 103 and 109: `idempotent and attempt < self._retries`
retries_left(c) == c.idempotent /\ c.attempt < c.retries

\* A call of `call` that is about to send its first request through _request.
ClientCall(call, method, idempotent, retries, resume, verify_etag) ==
    [pc |-> "request", call |-> call, method |-> method,
     idempotent |-> idempotent, retries |-> ClampRetries(retries),
     resume |-> resume, verify_etag |-> verify_etag, attempt |-> 0,
     status_code |-> 0, head |-> [size |-> 0, etag |-> NoEtag], start |-> 0,
     dest0 |-> dest, error |-> ""]

\* The call ends: it returns (error = "") or raises the exception `error`.
ClientDone(error) == [dbc EXCEPT !.pc = "done", !.error = error]

\* head(file_id), line 134
head_call(retries) ==
    /\ dbc.pc = "idle"
    /\ dbc' = ClientCall("head", "HEAD", TRUE, retries, FALSE, FALSE)
    /\ http' = << >>
    /\ UNCHANGED << dest, remote, rr >>
    /\ UNCHANGED runVars
    /\ UNCHANGED svcVars

\* download_to_path(file_id, dest, resume=, verify_etag=), line 153
download_to_path_call(retries, resume, verify_etag) ==
    /\ dbc.pc = "idle"
    /\ dbc' = ClientCall("download_to_path", "HEAD", TRUE, retries, resume,
                         verify_etag)
    /\ http' = << >>
    /\ UNCHANGED << dest, remote, rr >>
    /\ UNCHANGED runVars
    /\ UNCHANGED svcVars

\* upload(stream, filename=), lines 190-197: _request(..., idempotent=False)
upload_call(retries) ==
    /\ dbc.pc = "idle"
    /\ dbc' = ClientCall("upload", "POST", FALSE, retries, FALSE, FALSE)
    /\ http' = << >>
    /\ UNCHANGED << dest, remote, rr >>
    /\ UNCHANGED runVars
    /\ UNCHANGED svcVars

\* ArtifactUploader.upload_dir, lines 27-48: the configuration and directory
\* checks, then client.upload on a client built with the default retries.
upload_dir_call(cfg_ok, dir_ok) ==
    /\ dbc.pc = "idle"
    /\ dbc' = IF cfg_ok /\ dir_ok
              THEN ClientCall("upload_dir", "POST", FALSE, DefaultRetries,
                              FALSE, FALSE)
              ELSE [ClientCall("upload_dir", "POST", FALSE, DefaultRetries,
                               FALSE, FALSE)
                      EXCEPT !.pc = "done", !.error = "ArtifactUploadError"]
    /\ http' = << >>
    /\ UNCHANGED << dest, remote, rr >>
    /\ UNCHANGED runVars
    /\ UNCHANGED svcVars

\* _request, lines 96-107: the server answers with a status code.
request_response(status_code) ==
    /\ dbc.pc = "request"
    /\ IF 500 <= status_code /\ status_code < 600 /\ retries_left(dbc)
       THEN /\ dbc' = [dbc EXCEPT !.attempt = @ + 1]
            /\ http' = http \o << HttpRequest(dbc.method, None, status_code),
                                  HttpSleep(dbc.attempt + 1) >>
       ELSE /\ dbc' = [dbc EXCEPT !.pc = "response", !.status_code = status_code]
            /\ http' = Append(http, HttpRequest(dbc.method, None, status_code))
    /\ UNCHANGED << dest, remote, rr >>
    /\ UNCHANGED runVars
    /\ UNCHANGED svcVars

\* _request, lines 108-112: the request raises httpx.TransportError.
request_transport_error ==
    /\ dbc.pc = "request"
    /\ IF ~retries_left(dbc)
       THEN /\ dbc' = ClientDone(IF dbc.call = "upload_dir"
                                 THEN "ArtifactUploadError"
                                 ELSE "DataBankClientError")
            /\ http' = Append(http, HttpRequest(dbc.method, None, 0))
       ELSE /\ dbc' = [dbc EXCEPT !.attempt = @ + 1]
            /\ http' = http \o << HttpRequest(dbc.method, None, 0),
                                  HttpSleep(dbc.attempt + 1) >>
    /\ UNCHANGED << dest, remote, rr >>
    /\ UNCHANGED runVars
    /\ UNCHANGED svcVars

\* head, lines 135-141: the error mapping, then size and ETag from the
\* response headers.
head_response ==
    /\ dbc.pc = "response"
    /\ dbc.method = "HEAD"
    /\ IF dbc.status_code >= 400
       THEN dbc' = ClientDone(RaiseForError(dbc.status_code))
       ELSE LET head == [size |-> Len(remote.content), etag |-> remote.etag]
            IN dbc' = [dbc EXCEPT !.head = head,
                                  !.pc = IF dbc.call = "head" THEN "done"
                                         ELSE "decide"]
    /\ UNCHANGED << http, dest, remote, rr >>
    /\ UNCHANGED runVars
    /\ UNCHANGED svcVars

\* Mutant: the local file is never taken into account.
start_offset_zero(resume, d) == 0

\* Mutant: a local file larger than the remote one is not rejected.
local_larger_never(start, size) == FALSE

\* download_to_path, line 155: `start > head.size`
local_larger(start, size) == start > size

\* download_to_path, line 154
start_offset(resume, d) == IF resume /\ d # None THEN Len(d[1]) ELSE 0

\* download_to_path, lines 154-160: the local size against the remote size.
download_to_path_decide ==
    /\ dbc.pc = "decide"
    /\ LET start == start_offset(dbc.resume, dest)
       IN IF local_larger(start, dbc.head.size)
          THEN dbc' = ClientDone("RangeNotSatisfiableError")
          ELSE IF start >= dbc.head.size
          THEN dbc' = [dbc EXCEPT !.start = start,
                                  !.pc = IF dbc.verify_etag THEN "verify"
                                         ELSE "done"]
          ELSE dbc' = [dbc EXCEPT !.start = start, !.pc = "get"]
    /\ UNCHANGED << http, dest, remote, rr >>
    /\ UNCHANGED runVars
    /\ UNCHANGED svcVars

\* download_to_path, line 164: the Range header, sent when start > 0.
range_header(start) == IF start > 0 THEN Some(start) ELSE None

\* The body the server sends for a GET with this Range header.
response_body(range) ==
    IF range = None THEN remote.content
    ELSE SubSeq(remote.content, range[1] + 1, Len(remote.content))

\* Mutant: the file is always opened with "wb".
write_body_wb(d, start, bytes) == Some(bytes)

\* dest.open("r+b"); f.seek(start); f.write(...) when start > 0, and
\* dest.open("wb"); f.write(...) otherwise (lines 169-177).
write_body(d, start, bytes) ==
    IF start > 0 THEN Some(SubSeq(d[1], 1, start) \o bytes) ELSE Some(bytes)

\* download_to_path, lines 162-177: self._client.stream("GET", ...), called
\* directly on the httpx client. The request or the stream can break with
\* httpx.TransportError, which nothing here catches.
download_to_path_get ==
    /\ dbc.pc = "get"
    /\ \/ \* the request fails before a response arrives
          /\ http' = Append(http, HttpRequest("GET", range_header(dbc.start), 0))
          /\ dbc' = ClientDone("TransportError")
          /\ UNCHANGED dest
       \/ \E status_code \in Statuses :
            /\ http' = Append(http, HttpRequest("GET", range_header(dbc.start),
                                                status_code))
            /\ IF status_code >= 400
               THEN /\ dbc' = ClientDone(RaiseForError(status_code))
                    /\ UNCHANGED dest
               ELSE LET body == response_body(range_header(dbc.start))
                    IN \E n \in 0..Len(body) :
                      /\ dest' = write_body(dest, dbc.start, SubSeq(body, 1, n))
                      /\ dbc' = IF n < Len(body)
                                THEN \* the stream breaks after n bytes
                                     ClientDone("TransportError")
                                ELSE [dbc EXCEPT !.status_code = status_code,
                                        !.pc = IF dbc.verify_etag THEN "verify"
                                               ELSE "done"]
    /\ UNCHANGED << remote, rr >>
    /\ UNCHANGED runVars
    /\ UNCHANGED svcVars

\* Mutant: a file of any content passes.
verify_file_etag_exists(d, expected_etag) ==
    IF d = None THEN "FileNotFoundError" ELSE ""

\* _verify_file_etag, lines 223-230
verify_file_etag(d, expected_etag) ==
    IF d = None THEN "FileNotFoundError"
    ELSE IF Sha256(d[1]) # expected_etag THEN "DataBankClientError"
    ELSE ""

\* download_to_path, lines 158-160 and 178-180
download_to_path_verify ==
    /\ dbc.pc = "verify"
    /\ dbc' = ClientDone(verify_file_etag(dest, dbc.head.etag))
    /\ UNCHANGED << http, dest, remote, rr >>
    /\ UNCHANGED runVars
    /\ UNCHANGED svcVars

\* upload, lines 198-221: the error mapping and the parsed response; an
\* unparsable body or an empty file_id is a DataBankClientError. upload_dir
\* (lines 53-54) turns every DataBankClientError into ArtifactUploadError.
upload_response(file_id) ==
    /\ dbc.pc = "response"
    /\ dbc.method = "POST"
    /\ LET error == IF dbc.status_code >= 400
                    THEN RaiseForError(dbc.status_code)
                    ELSE IF file_id = "" THEN "DataBankClientError" ELSE ""
       IN dbc' = ClientDone(IF dbc.call = "upload_dir"
                               /\ error \in DataBankClientErrors
                            THEN "ArtifactUploadError" ELSE error)
    /\ UNCHANGED << http, dest, remote, rr >>
    /\ UNCHANGED runVars
    /\ UNCHANGED svcVars

\* The caller has the result; the client is free for the next call.
client_return ==
    /\ dbc.pc = "done"
    /\ dbc' = ClientIdle
    /\ http' = << >>
    /\ UNCHANGED << dest, remote, rr >>
    /\ UNCHANGED runVars
    /\ UNCHANGED svcVars

\* A data bank file with its ETag (or none), and a local file that may be
\* absent, partial, complete or unrelated.
InitClient ==
    /\ registry = None
    /\ store = << >>
    /\ queue = << >>
    /\ rundirs = {}
    /\ weights = {}
    /\ manifests = {}
    /\ api = ApiIdle
    /\ w = WorkerIdle
    /\ last = [op |-> "init"]
    /\ ServicesInit
    /\ dbc = ClientIdle
    /\ http = << >>
    /\ rr = ClientIdle
    /\ \E content \in Contents :
          remote \in {[content |-> content, etag |-> Sha256(content)],
                      [content |-> content, etag |-> NoEtag]}
    /\ dest \in {None} \cup {Some(content) : content \in Contents}

NextClient ==
    \/ \E retries \in -1..MaxRetries : head_call(retries)
    \/ \E retries \in -1..MaxRetries, resume \in BOOLEAN, verify_etag \in BOOLEAN :
          download_to_path_call(retries, resume, verify_etag)
    \/ \E retries \in -1..MaxRetries : upload_call(retries)
    \/ \E cfg_ok \in BOOLEAN, dir_ok \in BOOLEAN : upload_dir_call(cfg_ok, dir_ok)
    \/ \E status_code \in Statuses : request_response(status_code)
    \/ request_transport_error
    \/ head_response
    \/ download_to_path_decide
    \/ download_to_path_get
    \/ download_to_path_verify
    \/ \E file_id \in {"", "deadbeef"} : upload_response(file_id)
    \/ client_return

SpecClient == InitClient /\ [][NextClient]_vars

\* ------------------------------------------------ DataBankClient properties
\* The positions in the log of the requests sent with `method`.
RequestsSent(log, method) ==
    {i \in 1..Len(log) : log[i].kind = "request" /\ log[i].method = method}

\* The step is the GET of a download_to_path call that resumes a local file
\* of size k, 0 < k < remote size.
IsResumedGet ==
    /\ dbc.pc = "get"
    /\ dbc.call = "download_to_path"
    /\ dbc.resume
    /\ dest # None
    /\ 0 < Len(dest[1])
    /\ Len(dest[1]) < Len(remote.content)

\* The GET was answered with a success status and its whole body was
\* written.
GetCompleted == dbc'.pc \in {"verify", "done"} /\ dbc'.error = ""

\* The GET step sends the call's only GET, with Range: bytes=k-, and leaves
\* bytes 0..k-1 of the local file as they were.
ResumedGetSendsRange ==
    LET k == Len(dest[1])
    IN /\ RequestsSent(http, "GET") = {}
       /\ Len(http') = Len(http) + 1
       /\ SubSeq(http', 1, Len(http)) = http
       /\ http'[Len(http')].kind = "request"
       /\ http'[Len(http')].method = "GET"
       /\ http'[Len(http')].range = Some(k)
       /\ dest' # None
       /\ Len(dest'[1]) >= k
       /\ SubSeq(dest'[1], 1, k) = dest[1]

\* C13 as stated: for any existing local file of size k, 0 < k < remote
\* size, the resumed download sends one GET with Range: bytes=k-, leaves
\* bytes 0..k-1 untouched, and ends with a local file whose content and
\* SHA-256 equal the remote file's.
C13_ResumeAnyLocalFile ==
    [][IsResumedGet
         => /\ ResumedGetSendsRange
            /\ GetCompleted
                 => /\ dest'[1] = remote.content
                    /\ Sha256(dest'[1]) = Sha256(remote.content)]_vars

\* C13 amended: the same, but the final content (and SHA-256) equals the
\* remote file's when the k local bytes are the first k bytes of the remote
\* file; bytes 0..k-1 are never rewritten, so any other local file ends
\* with content that differs from the remote file's.
C13_ResumePartialFile ==
    [][IsResumedGet
         => /\ ResumedGetSendsRange
            /\ GetCompleted
                 => LET k == Len(dest[1])
                    IN IF dest[1] = SubSeq(remote.content, 1, k)
                       THEN /\ dest'[1] = remote.content
                            /\ Sha256(dest'[1]) = Sha256(remote.content)
                       ELSE /\ dest'[1] # remote.content
                            /\ Sha256(dest'[1]) # Sha256(remote.content)]_vars

\* C13 witness: a verified download that resumed a one-byte partial file
\* has returned, and the local file now equals the remote file.
C13_Witness ==
    /\ dbc.pc = "done"
    /\ dbc.call = "download_to_path"
    /\ dbc.error = ""
    /\ dbc.resume
    /\ dbc.verify_etag
    /\ dbc.dest0 # None
    /\ Len(dbc.dest0[1]) = 1
    /\ Len(remote.content) = 2
    /\ \E i \in RequestsSent(http, "GET") : http[i].range = Some(1)
    /\ dest = Some(remote.content)

\* The download_to_path call in progress (or just ended) has resume enabled
\* and started with a local file at least as large as the remote file.
IsLocalNotSmaller(c) ==
    /\ c.pc # "idle"
    /\ c.call = "download_to_path"
    /\ c.resume
    /\ c.dest0 # None
    /\ Len(c.dest0[1]) >= Len(remote.content)

\* C14: a download_to_path call with resume enabled whose local file is at
\* least as large as the remote file sends HEAD requests only (no GET) and
\* does not change the file; when the sizes are equal, with verification the
\* call's outcome is the comparison of the file's SHA-256 with the ETag, and
\* without verification the call returns the head info straight away.
C14_NoGetWhenLocalComplete ==
    [][/\ IsLocalNotSmaller(dbc')
            => /\ \A i \in 1..Len(http') :
                     http'[i].kind = "request" => http'[i].method = "HEAD"
               /\ dest' = dbc'.dest0
       /\ (/\ IsLocalNotSmaller(dbc)
           /\ dbc.pc = "decide"
           /\ Len(dest[1]) = dbc.head.size)
            => /\ http' = http
               /\ dbc.verify_etag => dbc'.pc = "verify"
               /\ ~dbc.verify_etag
                    => /\ dbc'.pc = "done"
                       /\ dbc'.error = ""
                       /\ dbc'.head = [size |-> Len(remote.content),
                                       etag |-> remote.etag]
       /\ (IsLocalNotSmaller(dbc) /\ dbc.pc = "verify")
            => /\ dbc'.pc = "done"
               /\ (dbc'.error = "") = (Sha256(dest[1]) = dbc.head.etag)
               /\ dbc'.error \in {"", "DataBankClientError"}]_vars

\* C14 witness: a call that found a complete local file has returned after
\* verifying it, having sent one HEAD and nothing else.
C14_Witness ==
    /\ IsLocalNotSmaller(dbc)
    /\ dbc.pc = "done"
    /\ dbc.error = ""
    /\ dbc.verify_etag
    /\ Len(dbc.dest0[1]) = MaxBytes
    /\ Len(http) = 1
    /\ http[1].method = "HEAD"

\* C15: a download_to_path call with resume enabled whose local file is
\* strictly larger than the remote file raises RangeNotSatisfiableError as
\* soon as HEAD has returned the size; it sends no GET and the local file
\* stays byte for byte as it was.
C15_LocalLargerRaises ==
    [][/\ (/\ dbc.pc = "decide"
           /\ dbc.resume
           /\ dest # None
           /\ Len(dest[1]) > dbc.head.size)
            => /\ dbc'.pc = "done"
               /\ dbc'.error = "RangeNotSatisfiableError"
               /\ http' = http
               /\ RequestsSent(http', "GET") = {}
               /\ dest' = dest
       /\ (IsLocalNotSmaller(dbc') /\ Len(dbc'.dest0[1]) > Len(remote.content))
            => /\ dest' = dbc'.dest0
               /\ RequestsSent(http', "GET") = {}
               /\ dbc'.pc = "done"
                    => dbc'.error # ""]_vars

\* C15 witness: the call has raised RangeNotSatisfiableError for a two-byte
\* local file and a one-byte remote file, and the file is unchanged.
C15_Witness ==
    /\ dbc.pc = "done"
    /\ dbc.call = "download_to_path"
    /\ dbc.error = "RangeNotSatisfiableError"
    /\ dbc.dest0 # None
    /\ Len(dbc.dest0[1]) = 2
    /\ Len(remote.content) = 1
    /\ dest = dbc.dest0
    /\ \A i \in 1..Len(http) : http[i].answer # 416

\* C16: with verify_etag set, download_to_path returns normally only when
\* the SHA-256 of the whole local file equals the ETag that HEAD reported,
\* whichever path it took; and verifying a local file that has the remote
\* size but other content raises DataBankClientError.
C16_VerifiedReturnMatchesEtag ==
    [][/\ (/\ dbc'.pc = "done"
           /\ dbc'.call = "download_to_path"
           /\ dbc'.verify_etag
           /\ dbc'.error = "")
            => /\ dest' # None
               /\ Sha256(dest'[1]) = dbc'.head.etag
               /\ dbc'.head.etag = remote.etag
       /\ (/\ dbc.pc = "verify"
           /\ dest # None
           /\ Len(dest[1]) = Len(remote.content)
           /\ dest[1] # remote.content
           /\ remote.etag = Sha256(remote.content))
            => /\ dbc'.pc = "done"
               /\ dbc'.error = "DataBankClientError"]_vars

\* C16 witness: verification has rejected a local file that has the
\* remote file's size and other content.
C16_Witness ==
    /\ dbc.pc = "done"
    /\ dbc.call = "download_to_path"
    /\ dbc.verify_etag
    /\ dbc.error = "DataBankClientError"
    /\ RequestsSent(http, "GET") = {}
    /\ \A i \in 1..Len(http) : http[i].answer = 200
    /\ dest # None
    /\ Len(dest[1]) = Len(remote.content)
    /\ dest[1] # remote.content
    /\ remote.etag = Sha256(remote.content)

\* The sleeps in the log.
SleepsIn(log) == {i \in 1..Len(log) : log[i].kind = "sleep"}

\* The answer is a 5xx status or a transport error (answer 0).
IsFailure(answer) == answer = 0 \/ (500 <= answer /\ answer < 600)

\* C17: an upload (directly or through ArtifactUploader.upload_dir) puts at
\* most one POST and nothing else on the wire and never sleeps, whatever
\* `retries` is; once _request has returned or raised exactly one POST was
\* sent, and a 5xx answer or a transport error ends the call at once with
\* the mapped error (DataBankClientError for a transport error;
\* ArtifactUploadError from upload_dir).
C17_UploadSendsOnePost ==
    (dbc.pc # "idle" /\ dbc.method = "POST")
        => /\ Len(http) <= 1
           /\ SleepsIn(http) = {}
           /\ RequestsSent(http, "POST") = 1..Len(http)
           /\ dbc.attempt = 0
           /\ dbc.pc = "request" => http = << >>
           /\ dbc.pc = "response" => Len(http) = 1
           /\ (dbc.pc = "done" /\ dbc.call = "upload") => Len(http) = 1
           /\ (dbc.pc = "done" /\ http # << >> /\ IsFailure(http[1].answer))
                => dbc.error =
                     IF dbc.call = "upload_dir" THEN "ArtifactUploadError"
                     ELSE IF http[1].answer = 0 THEN "DataBankClientError"
                     ELSE RaiseForError(http[1].answer)

\* C17 witness: an upload configured with the largest `retries` has failed
\* on a 500 answer after its single POST.
C17_Witness ==
    /\ dbc.pc = "done"
    /\ dbc.call = "upload"
    /\ dbc.retries = MaxRetries
    /\ dbc.error = "DataBankClientError"
    /\ http = << HttpRequest("POST", None, 500) >>

\* What _request put on the wire for the HEAD of the call: its requests and
\* its sleeps.
HeadLog == SelectSeq(http, LAMBDA e : e.kind = "sleep" \/ e.method = "HEAD")

\* C18: the HEAD sent through _request is attempted at most retries+1
\* times; the k-th retry comes right after a sleep of backoff x k, and only
\* after a 5xx answer or a transport error; a non-5xx answer ends the
\* attempts; a failure is surfaced only when the retries are used up, a 5xx
\* answer through the status-to-error mapping and a transport error as
\* DataBankClientError.
C18_IdempotentRetry ==
    (dbc.pc # "idle" /\ dbc.method = "HEAD")
        => LET log == HeadLog
               n == Cardinality(RequestsSent(log, "HEAD"))
           IN /\ n <= dbc.retries + 1
              /\ \A j \in 1..Len(log) :
                   IF j % 2 = 1
                   THEN /\ log[j].kind = "request"
                        /\ j < Len(log) => IsFailure(log[j].answer)
                   ELSE /\ log[j].kind = "sleep"
                        /\ log[j].backoff_times = j \div 2
              /\ dbc.pc = "request" => Len(log) % 2 = 0 /\ n <= dbc.retries
              /\ dbc.pc # "request"
                   => /\ Len(log) % 2 = 1
                      /\ IsFailure(log[Len(log)].answer) => n = dbc.retries + 1
                      /\ log[Len(log)].answer = 0
                           => dbc.pc = "done" /\ dbc.error = "DataBankClientError"
                      /\ (log[Len(log)].answer >= 500 /\ dbc.pc = "done")
                           => dbc.error = RaiseForError(log[Len(log)].answer)

\* C18 witness: a head call with retries = 2 has failed on its third
\* attempt, after a transport error and a 500, with the mapped error of 507.
C18_Witness ==
    /\ dbc.pc = "done"
    /\ dbc.call = "head"
    /\ dbc.retries = 2
    /\ dbc.error = "InsufficientStorageClientError"
    /\ http = << HttpRequest("HEAD", None, 0), HttpSleep(1),
                 HttpRequest("HEAD", None, 500), HttpSleep(2),
                 HttpRequest("HEAD", None, 507) >>

\* C19: when the GET of download_to_path is answered with a 5xx status or
\* breaks with a transport error, it is re-sent, so that a call that ends
\* after such an answer has sent retries+1 GETs.
C19_GetIsRetried ==
    (/\ dbc.pc = "done"
     /\ dbc.call = "download_to_path"
     /\ \E i \in RequestsSent(http, "GET") : IsFailure(http[i].answer))
        => Cardinality(RequestsSent(http, "GET")) = dbc.retries + 1

\* ------------------------------------------- get_with_retry, set_with_retry
MaxAttempts == 3       \* largest `attempts` passed
DefaultAttempts == 3   \* attempts: int = 3
FirstDelayMs == 10     \* delay = 0.01

NoError == << "", 0 >>
\* The exception raised by the store call of attempt i.
Raised(class, i) == << class, i >>

RetryCallEntry(outcome) == [kind |-> "call", outcome |-> outcome, ms |-> 0]
\* time.sleep(delay), in milliseconds
RetrySleepEntry(ms) == [kind |-> "sleep", outcome |-> "", ms |-> ms]

\* Mutant: no attempt is taken to be the last one.
is_last_attempt_never(i, attempts) == FALSE

\* lines 23 and 37: `i == attempts - 1`
is_last_attempt(i, attempts) == i = attempts - 1

\* The call enters its for loop: delay = 0.01, i = 0.
RetryCall(fn, key, value, attempts) ==
    [pc |-> "attempt", fn |-> fn, key |-> key, value |-> value,
     attempts |-> attempts, i |-> 0, delay |-> FirstDelayMs, log |-> << >>,
     result |-> None, error |-> NoError]

\* get_with_retry(client, key, attempts=), line 18
get_with_retry_call(key, attempts) ==
    /\ rr.pc = "idle"
    /\ rr' = RetryCall("get", key, "", attempts)
    /\ UNCHANGED << dbc, http, dest, remote >>
    /\ UNCHANGED runVars
    /\ UNCHANGED svcVars

\* set_with_retry(client, key, value, attempts=), line 31
set_with_retry_call(key, value, attempts) ==
    /\ rr.pc = "idle"
    /\ rr' = RetryCall("set", key, value, attempts)
    /\ UNCHANGED << dbc, http, dest, remote >>
    /\ UNCHANGED runVars
    /\ UNCHANGED svcVars

\* Lines 19-27 and 32-40: one pass of `for i in range(attempts)`. The store
\* call succeeds, raises RedisError or raises something else.
with_retry_attempt ==
    /\ rr.pc = "attempt"
    /\ IF rr.i >= rr.attempts
       THEN \* range(attempts) is exhausted: the function falls off the loop
            /\ rr' = [rr EXCEPT !.pc = "done"]
            /\ UNCHANGED store
       ELSE \/ /\ rr' = [rr EXCEPT !.pc = "done",
                           !.log = Append(@, RetryCallEntry("ok")),
                           !.result = IF rr.fn = "get"
                                      THEN RedisGet(store, rr.key) ELSE None]
               /\ store' = IF rr.fn = "set"
                           THEN RedisSet(store, rr.key, rr.value) ELSE store
            \/ /\ rr' = IF is_last_attempt(rr.i, rr.attempts)
                        THEN [rr EXCEPT !.pc = "done",
                                !.log = Append(@, RetryCallEntry("RedisError")),
                                !.error = Raised("RedisError", rr.i)]
                        ELSE [rr EXCEPT !.i = @ + 1, !.delay = @ * 2,
                                !.log = @ \o << RetryCallEntry("RedisError"),
                                                RetrySleepEntry(rr.delay) >>]
               /\ UNCHANGED store
            \/ /\ rr' = [rr EXCEPT !.pc = "done",
                           !.log = Append(@, RetryCallEntry("TypeError")),
                           !.error = Raised("TypeError", rr.i)]
               /\ UNCHANGED store
    /\ UNCHANGED << registry, queue, rundirs, weights, manifests, api, w, last >>
    /\ UNCHANGED << dbc, http, dest, remote >>
    /\ UNCHANGED svcVars

\* The caller has the result or the exception.
with_retry_return ==
    /\ rr.pc = "done"
    /\ rr' = ClientIdle
    /\ UNCHANGED << dbc, http, dest, remote >>
    /\ UNCHANGED runVars
    /\ UNCHANGED svcVars

InitRetry ==
    /\ ClientsInit
    /\ registry = None
    /\ store \in {TrainedStore(run_id, stage) :
                    run_id \in RunIds, stage \in {"none", "queued"}}
    /\ queue = << >>
    /\ rundirs = {}
    /\ weights = {}
    /\ manifests = {}
    /\ api = ApiIdle
    /\ w = WorkerIdle
    /\ last = [op |-> "init"]

NextRetry ==
    \/ \E run_id \in RunIds, attempts \in (0..MaxAttempts) \cup {DefaultAttempts} :
          get_with_retry_call(StatusKey(run_id), attempts)
    \/ \E run_id \in RunIds, value \in {"queued", "running"},
          attempts \in (0..MaxAttempts) \cup {DefaultAttempts} :
          set_with_retry_call(StatusKey(run_id), value, attempts)
    \/ with_retry_attempt
    \/ with_retry_return

SpecRetry == InitRetry /\ [][NextRetry]_vars

\* The positions in the log of the store calls.
RetryCalls(log) == {j \in 1..Len(log) : log[j].kind = "call"}

\* C20: a call of get_with_retry or set_with_retry makes at most `attempts`
\* store calls; every store call but the last raised RedisError; the store
\* calls are separated by waits of 10 ms, 20 ms, 40 ms, ...; the call ends
\* right after its last store call (no wait follows it); and when that one
\* raised RedisError, all `attempts` calls were made and that very error
\* propagates.
C20_BoundedRetry ==
    rr.pc # "idle"
        => LET log == rr.log
               n == Cardinality(RetryCalls(log))
           IN /\ n <= rr.attempts
              /\ \A j \in 1..Len(log) :
                   IF j % 2 = 1
                   THEN /\ log[j].kind = "call"
                        /\ j < Len(log) => log[j].outcome = "RedisError"
                   ELSE /\ log[j].kind = "sleep"
                        /\ log[j].ms = 10 * 2 ^ ((j \div 2) - 1)
              /\ rr.pc = "attempt"
                   => /\ Len(log) % 2 = 0
                      /\ n < rr.attempts \/ rr.attempts <= 0
              /\ rr.pc = "done"
                   => /\ Len(log) % 2 = 1 \/ rr.attempts <= 0
                      /\ log # << >>
                           => /\ log[Len(log)].outcome = "RedisError"
                                   => /\ n = rr.attempts
                                      /\ rr.error = << "RedisError", n - 1 >>
                              /\ log[Len(log)].outcome = "ok"
                                   => rr.error = << "", 0 >>

\* C20 witness: set_with_retry with three attempts has raised the third
\* RedisError after waits of 10 ms and 20 ms.
C20_Witness ==
    /\ rr.pc = "done"
    /\ rr.fn = "set"
    /\ rr.attempts = 3
    /\ rr.error = << "RedisError", 2 >>
    /\ Len(rr.log) = 5
    /\ rr.log[2].ms = 10
    /\ rr.log[4].ms = 20
\* ===================================================== CorpusFetcher.fetch
\* core/services/data/corpus_fetcher.py.  One corpus file_id: its cache file
\* {file_id}.txt (cache_dir.final) and its temp file {file_id}.tmp
\* (cache_dir.tmp).  The fetcher talks to the data bank with httpx directly;
\* `http` logs its requests and `remote` is the file the data bank holds.

MaxTemp == 3           \* longest temp file

\* Mutant: the cache file is never found.
cache_hit_never(dir) == FALSE

\* if cache_path.exists():
cache_hit(dir) == dir.final # None

FetchCall(pc, expected_size, start, error, final0) ==
    [pc |-> pc, expected_size |-> expected_size, start |-> start,
     error |-> error, final0 |-> final0]

\* The call has returned cache_path (error = "") or raised `error`.
FetchDone(c, error) == FetchCall("done", c.expected_size, c.start, error, c.final0)

\* fetch(file_id), up to the cache check.
fetch_call ==
    /\ cf.pc = "idle"
    /\ http' = << >>
    /\ cf' = IF cache_hit(cache_dir)
             THEN FetchCall("done", 0, 0, "", cache_dir.final)
             ELSE FetchCall("head", 0, 0, "", cache_dir.final)
    /\ UNCHANGED << cache_dir, remote >>
    /\ UNCHANGED << dbc, dest, rr, cc, disk, tc, tok, ac >>
    /\ UNCHANGED runVars

\* temp_path.stat().st_size if temp_path.exists() else 0
temp_size(dir) == IF dir.tmp = None THEN 0 ELSE Len(dir.tmp[1])

\* httpx.head(...); head_resp.raise_for_status(); expected_size is the
\* Content-Length header, 0 when the response has none; then `start`.
fetch_head_response(status_code, has_length) ==
    /\ cf.pc = "head"
    /\ http' = Append(http, HttpRequest("HEAD", None, status_code))
    /\ cf' = IF status_code >= 400
             THEN FetchDone(cf, "HTTPStatusError")
             ELSE FetchCall("get",
                            IF has_length THEN Len(remote.content) ELSE 0,
                            temp_size(cache_dir), "", cf.final0)
    /\ UNCHANGED << cache_dir, remote >>
    /\ UNCHANGED << dbc, dest, rr, cc, disk, tc, tok, ac >>
    /\ UNCHANGED runVars

\* httpx.head raises ConnectError or TimeoutException.
fetch_head_transport_error ==
    /\ cf.pc = "head"
    /\ http' = Append(http, HttpRequest("HEAD", None, 0))
    /\ cf' = FetchDone(cf, "TransportError")
    /\ UNCHANGED << cache_dir, remote >>
    /\ UNCHANGED << dbc, dest, rr, cc, disk, tc, tok, ac >>
    /\ UNCHANGED runVars

\* headers["Range"] = f"bytes={start}-" only if start > 0
fetch_range(c) == IF c.start > 0 THEN Some(c.start) ELSE None

\* temp_path.open("ab") appends when start > 0, temp_path.open("wb")
\* truncates otherwise.
fetch_write(dir, c, data) ==
    IF c.start > 0 THEN Some(dir.tmp[1] \o data) ELSE Some(data)

\* httpx.stream("GET", ...): raise_for_status, then the chunks the
\* connection delivers are written to the temp file; the stream may break
\* after any of them.  Nothing in fetch compares the bytes received with
\* anything, so `data` is whatever the connection delivered.
fetch_get_response(status_code, data, broken) ==
    /\ cf.pc = "get"
    /\ http' = Append(http, HttpRequest("GET", fetch_range(cf), status_code))
    /\ IF status_code >= 400
       THEN /\ cf' = FetchDone(cf, "HTTPStatusError")
            /\ UNCHANGED cache_dir
       ELSE /\ Len(fetch_write(cache_dir, cf, data)[1]) <= MaxTemp
            /\ cache_dir' = [cache_dir EXCEPT !.tmp = fetch_write(cache_dir, cf, data)]
            /\ cf' = IF broken THEN FetchDone(cf, "TransportError")
                     ELSE FetchCall("check", cf.expected_size, cf.start, "", cf.final0)
    /\ UNCHANGED remote
    /\ UNCHANGED << dbc, dest, rr, cc, disk, tc, tok, ac >>
    /\ UNCHANGED runVars

\* httpx.stream raises before any response.
fetch_get_transport_error ==
    /\ cf.pc = "get"
    /\ http' = Append(http, HttpRequest("GET", fetch_range(cf), 0))
    /\ cf' = FetchDone(cf, "TransportError")
    /\ UNCHANGED << cache_dir, remote >>
    /\ UNCHANGED << dbc, dest, rr, cc, disk, tc, tok, ac >>
    /\ UNCHANGED runVars

\* if temp_path.stat().st_size != expected_size: raise RuntimeError
size_mismatch(dir, c) == temp_size(dir) # c.expected_size

\* The size check, then temp_path.replace(cache_path).
fetch_promote ==
    /\ cf.pc = "check"
    /\ IF size_mismatch(cache_dir, cf)
       THEN /\ cf' = FetchDone(cf, "RuntimeError")
            /\ UNCHANGED cache_dir
       ELSE /\ cache_dir' = [final |-> cache_dir.tmp, tmp |-> None]
            /\ cf' = FetchDone(cf, "")
    /\ UNCHANGED << http, remote >>
    /\ UNCHANGED << dbc, dest, rr, cc, disk, tc, tok, ac >>
    /\ UNCHANGED runVars

\* The worker process is killed inside fetch: the files stay as they are.
fetch_crash ==
    /\ cf.pc \in {"head", "get", "check"}
    /\ cf' = FetchDone(cf, "ProcessKilled")
    /\ UNCHANGED << http, cache_dir, remote >>
    /\ UNCHANGED << dbc, dest, rr, cc, disk, tc, tok, ac >>
    /\ UNCHANGED runVars

fetch_return ==
    /\ cf.pc = "done"
    /\ cf' = ClientIdle
    /\ UNCHANGED << http, cache_dir, remote >>
    /\ UNCHANGED << dbc, dest, rr, cc, disk, tc, tok, ac >>
    /\ UNCHANGED runVars

\* An empty cache directory and a file in the data bank.
InitFetch ==
    /\ registry = None
    /\ store = << >>
    /\ queue = << >>
    /\ rundirs = {}
    /\ weights = {}
    /\ manifests = {}
    /\ api = ApiIdle
    /\ w = WorkerIdle
    /\ last = [op |-> "init"]
    /\ dbc = ClientIdle
    /\ http = << >>
    /\ dest = None
    /\ rr = ClientIdle
    /\ cf = ClientIdle
    /\ cache_dir = [final |-> None, tmp |-> None]
    /\ cc = ServiceNone
    /\ disk = [kind |-> "missing", entries |-> {}, free_bytes |-> 0]
    /\ tc = ServiceNone
    /\ tok = [kind |-> "missing", dirs |-> {}, runs |-> {}, now |-> 0]
    /\ ac = ServiceNone
    /\ \E content \in Contents :
          remote = [content |-> content, etag |-> Sha256(content)]

NextFetch ==
    \/ fetch_call
    \/ \E status_code \in Statuses, has_length \in BOOLEAN :
          fetch_head_response(status_code, has_length)
    \/ fetch_head_transport_error
    \/ \E status_code \in Statuses, data \in Contents, broken \in BOOLEAN :
          fetch_get_response(status_code, data, broken)
    \/ fetch_get_transport_error
    \/ fetch_promote
    \/ fetch_crash
    \/ fetch_return

SpecFetch == InitFetch /\ [][NextFetch]_vars

\* C21: when the final cache file for file_id exists, fetch returns its path
\* without sending any network request and leaves the file unchanged.
C21_CacheHitNoNetwork ==
    (cf.pc # "idle" /\ cf.final0 # None) =>
        /\ cf.pc = "done"
        /\ cf.error = ""
        /\ http = << >>
        /\ cache_dir.final = cf.final0

C21_Witness ==
    /\ cf.pc = "done"
    /\ cf.final0 # None
    /\ cf.error = ""
    /\ cache_dir.final = cf.final0

\* C22: a fetch that fails or crashes never creates or modifies the final
\* cache file, which changes only by the rename of the temp file, and any
\* final cache file that exists holds the complete remote content.
C22_FinalFileAtomic ==
    [][/\ (cache_dir'.final # cache_dir.final) =>
             /\ cf.pc = "check"
             /\ cf'.pc = "done"
             /\ cf'.error = ""
             /\ cache_dir'.final = cache_dir.tmp
       /\ (cf'.pc = "done" /\ cf'.error # "") => cache_dir'.final = cf'.final0
       /\ (cache_dir'.final # None) => cache_dir'.final = Some(remote'.content)]_vars

\* C22 without its last clause: the final file changes only by the rename at
\* the end of a successful fetch.
FinalFileChangesOnlyByRename ==
    [][/\ (cache_dir'.final # cache_dir.final) =>
             /\ cf.pc = "check"
             /\ cf'.pc = "done"
             /\ cf'.error = ""
             /\ cache_dir'.final = cache_dir.tmp
       /\ (cf'.pc = "done" /\ cf'.error # "") => cache_dir'.final = cf'.final0]_vars

\* C23: the temp file is renamed to the final cache file only after its size
\* and its content hash have been verified against the remote's, so a temp
\* file whose content differs from the remote content is never renamed.
C23_PromoteOnlyVerified ==
    [][(cf.pc = "check" /\ cache_dir'.final # cache_dir.final) =>
          /\ Len(cache_dir.tmp[1]) = Len(remote.content)
          /\ Sha256(cache_dir.tmp[1]) = remote.etag]_vars


\* ======================================== CorpusCacheCleanupService.clean
\* core/services/data/corpus_cache_cleanup.py.  disk.kind says what the path
\* {data_root}/corpus_cache is; disk.entries are the directory's entries and
\* disk.free_bytes is what shutil.disk_usage reports as free.

MaxFiles == 2          \* most entries in the corpus cache directory

FileNames == 1..MaxFiles
FileSizes == {1, 2}
AccessTimes == {0, 1, 2}
ModifiedTimes == {1, 2}
FreeBytes == {0, 1}

\* What os.scandir and dirent.stat() say about one entry.
CacheEntry(name, is_file, size, atime, mtime) ==
    [name |-> name, is_file |-> is_file, size_bytes |-> size,
     st_atime |-> atime, st_mtime |-> mtime]

DirEntries(name) ==
    {CacheEntry(name, TRUE, size, atime, mtime) :
        size \in FileSizes, atime \in AccessTimes, mtime \in ModifiedTimes}
    \cup {CacheEntry(name, FALSE, 1, 1, 1)}

\* cfg = settings.app.corpus_cache_cleanup
CorpusCacheCleanupConfigs ==
    [enabled : BOOLEAN, max_bytes : {1, 3}, min_free_bytes : {0, 2},
     eviction_policy : {"lru", "oldest"}]

\* access_ts = float(stat.st_atime or stat.st_mtime)
access_ts(entry) == IF entry.st_atime # 0 THEN entry.st_atime ELSE entry.st_mtime

\* modified_ts = float(stat.st_mtime)
modified_ts(entry) == entry.st_mtime

\* Mutant: the entries are ordered by modification time under both policies.
cache_key_oldest_only(policy, entry) == modified_ts(entry)

\* key_fn: _cache_key_lru for "lru", _cache_key_oldest otherwise.
cache_key(policy, entry) ==
    IF policy = "lru" THEN access_ts(entry) ELSE modified_ts(entry)

\* The orders in which os.scandir can yield the regular files of the directory.
ScanOrders(files) ==
    {o \in [1..Cardinality(files) -> files] :
        \A i, j \in 1..Cardinality(files) : i # j => o[i] # o[j]}

\* One step of the stable sort: `entry` goes after every element whose key
\* is not greater than its own.
RECURSIVE InsertSorted(_, _, _)
InsertSorted(policy, entry, seq) ==
    IF seq = << >> THEN << entry >>
    ELSE IF cache_key(policy, entry) < cache_key(policy, Head(seq))
         THEN << entry >> \o seq
         ELSE << Head(seq) >> \o InsertSorted(policy, entry, Tail(seq))

\* sorted(entries, key=key_fn)
RECURSIVE SortedBy(_, _)
SortedBy(policy, seq) ==
    IF seq = << >> THEN << >>
    ELSE InsertSorted(policy, seq[Len(seq)],
                      SortedBy(policy, SubSeq(seq, 1, Len(seq) - 1)))

\* total += size over the entries scanned
RECURSIVE TotalBytes(_)
TotalBytes(seq) ==
    IF seq = << >> THEN 0 ELSE Head(seq).size_bytes + TotalBytes(Tail(seq))

\* total_bytes <= cfg.max_bytes and free_bytes >= cfg.min_free_bytes
thresholds_hold(cfg, total_bytes, free_bytes) ==
    total_bytes <= cfg.max_bytes /\ free_bytes >= cfg.min_free_bytes

\* Mutant: deleting a file gives nothing back to the volume.
released_bytes_none(entry) == 0

\* What unlink adds to the volume's free bytes: the file's st_size, as the
\* running free_bytes of the loop takes it to be.
released_bytes(entry) == entry.size_bytes

CacheCleanResult(deleted_files, bytes_freed) ==
    Some([deleted_files |-> deleted_files, bytes_freed |-> bytes_freed])

\* The pass: its configuration, the sorted entries still to visit, the
\* running totals, and how it ended.  disk0 is the directory the pass found,
\* fault the filesystem call that failed in it, prev what the previous pass
\* left, and again says that the previous pass returned normally and left
\* the directory exactly as this pass finds it.
CacheClean(pc, cfg, order, total_bytes, free_bytes, deleted_files, bytes_freed, result, error, fault, disk0, again, prev) ==
    [pc |-> pc, cfg |-> cfg, order |-> order, total_bytes |-> total_bytes,
     free_bytes |-> free_bytes, deleted_files |-> deleted_files,
     bytes_freed |-> bytes_freed, result |-> result, error |-> error,
     fault |-> fault, disk0 |-> disk0, again |-> again, prev |-> prev]

CacheCleanDone(c, result, error, fault) ==
    CacheClean("done", c.cfg, c.order, c.total_bytes, c.free_bytes,
               c.deleted_files, c.bytes_freed, result, error, fault,
               c.disk0, c.again, c.prev)

\* Mutant: the OSError of the failing call is not wrapped.
CacheCleanFailed_raw(c, fault) == CacheCleanDone(c, None, "OSError", fault)

\* except OSError as exc: raise CorpusCacheCleanupError(...) from exc
CacheCleanFailed(c, fault) ==
    CacheCleanDone(c, None, "CorpusCacheCleanupError", fault)

\* The service between two passes: its settings, and what the last pass left.
CacheCleanIdle(cfg, prev) == [pc |-> "idle", prev |-> prev, cfg |-> cfg]

\* clean(), from its entry to the first iteration of the eviction loop.
cache_clean_call(fault) ==
    /\ cc.pc = "idle"
    /\ \E scanned \in ScanOrders({e \in disk.entries : e.is_file}) :
       LET cfg == cc.cfg
           again == /\ cc.prev # None
                    /\ cc.prev[1].ok
                    /\ cc.prev[1].disk = disk
           c0 == CacheClean("loop", cfg, << >>, 0, 0, 0, 0, None, "", "", disk,
                            again, cc.prev)
       IN
       cc' =
            IF ~cfg.enabled THEN CacheCleanDone(c0, CacheCleanResult(0, 0), "", "")
            ELSE IF disk.kind = "missing"
            THEN CacheCleanDone(c0, CacheCleanResult(0, 0), "", "")
            ELSE IF disk.kind # "dir"
            THEN CacheCleanDone(c0, None, "CorpusCacheCleanupError", "")
            ELSE IF fault = "disk_usage"
            THEN CacheCleanFailed(c0, fault)
            ELSE IF fault = "scan"
            THEN CacheCleanFailed(c0, fault)
            ELSE IF thresholds_hold(cfg, TotalBytes(scanned), disk.free_bytes)
            THEN CacheCleanDone([c0 EXCEPT !.total_bytes = TotalBytes(scanned),
                                           !.free_bytes = disk.free_bytes],
                                CacheCleanResult(0, 0), "", "")
            ELSE CacheClean("loop", cfg, SortedBy(cfg.eviction_policy, scanned),
                            TotalBytes(scanned), disk.free_bytes, 0, 0,
                            None, "", "", disk, again, cc.prev)
    /\ UNCHANGED disk
    /\ UNCHANGED << dbc, http, dest, remote, rr, cf, cache_dir, tc, tok, ac >>
    /\ UNCHANGED runVars

\* One iteration of `for entry in sorted(entries, key=key_fn)`, or the end
\* of the loop and the return.  unlink_fails: entry.path.unlink() raises.
cache_clean_loop(unlink_fails) ==
    /\ cc.pc = "loop"
    /\ IF cc.order = << >>
          \/ thresholds_hold(cc.cfg, cc.total_bytes, cc.free_bytes)
       THEN /\ cc' = CacheCleanDone(cc, CacheCleanResult(cc.deleted_files,
                                                         cc.bytes_freed), "", "")
            /\ UNCHANGED disk
       ELSE IF unlink_fails
       THEN /\ cc' = CacheCleanFailed(cc, "unlink")
            /\ UNCHANGED disk
       ELSE LET entry == Head(cc.order) IN
            /\ disk' = [disk EXCEPT !.entries = @ \ {entry},
                                    !.free_bytes = @ + released_bytes(entry)]
            /\ cc' = [cc EXCEPT !.order = Tail(@),
                                !.deleted_files = @ + 1,
                                !.bytes_freed = @ + entry.size_bytes,
                                !.total_bytes = @ - entry.size_bytes,
                                !.free_bytes = @ + entry.size_bytes]
    /\ UNCHANGED << dbc, http, dest, remote, rr, cf, cache_dir, tc, tok, ac >>
    /\ UNCHANGED runVars

\* The caller has the result or the exception; what the pass left is kept
\* for the next one.
cache_clean_return ==
    /\ cc.pc = "done"
    /\ cc' = CacheCleanIdle(cc.cfg, Some([ok |-> cc.error = "", disk |-> disk,
                                          deleted_files |-> cc.deleted_files]))
    /\ UNCHANGED disk
    /\ UNCHANGED << dbc, http, dest, remote, rr, cf, cache_dir, tc, tok, ac >>
    /\ UNCHANGED runVars

\* Something else on the volume allocates or releases space.
disk_usage_changes(free_bytes) ==
    /\ cc.pc = "idle"
    /\ free_bytes # disk.free_bytes
    /\ disk' = [disk EXCEPT !.free_bytes = free_bytes]
    /\ UNCHANGED cc
    /\ UNCHANGED << dbc, http, dest, remote, rr, cf, cache_dir, tc, tok, ac >>
    /\ UNCHANGED runVars

\* A service with any settings, and any corpus cache directory of at most
\* MaxFiles entries, or no directory, or a file in its place.
InitCacheClean ==
    /\ registry = None
    /\ store = << >>
    /\ queue = << >>
    /\ rundirs = {}
    /\ weights = {}
    /\ manifests = {}
    /\ api = ApiIdle
    /\ w = WorkerIdle
    /\ last = [op |-> "init"]
    /\ dbc = ClientIdle
    /\ http = << >>
    /\ dest = None
    /\ remote = [content |-> << >>, etag |-> << "", << >> >>]
    /\ rr = ClientIdle
    /\ cf = ClientIdle
    /\ cache_dir = [final |-> None, tmp |-> None]
    /\ tc = ServiceNone
    /\ tok = [kind |-> "missing", dirs |-> {}, runs |-> {}, now |-> 0]
    /\ ac = ServiceNone
    /\ \E cfg \in CorpusCacheCleanupConfigs : cc = CacheCleanIdle(cfg, None)
    /\ \E free_bytes \in FreeBytes :
          \/ \E kind \in {"missing", "file"} :
                disk = [kind |-> kind, entries |-> {}, free_bytes |-> free_bytes]
          \/ \E names \in SUBSET FileNames :
                \E f \in [names -> UNION {DirEntries(n) : n \in FileNames}] :
                   /\ \A n \in names : f[n].name = n
                   /\ disk = [kind |-> "dir", entries |-> {f[n] : n \in names},
                              free_bytes |-> free_bytes]

NextCacheClean ==
    \/ \E fault \in {"", "disk_usage", "scan"} : cache_clean_call(fault)
    \/ \E unlink_fails \in BOOLEAN : cache_clean_loop(unlink_fails)
    \/ cache_clean_return
    \/ \E free_bytes \in FreeBytes : disk_usage_changes(free_bytes)

SpecCacheClean == InitCacheClean /\ [][NextCacheClean]_vars


\* The regular files the pass found and the entries it has removed.
FilesFound == {e \in cc.disk0.entries : e.is_file}
Evicted == cc.disk0.entries \ disk.entries

\* Do the thresholds hold on the running totals once the first j entries of
\* `o` are gone?
HoldAfter(o, j) ==
    /\ TotalBytes(o) - TotalBytes(SubSeq(o, 1, j)) <= cc.cfg.max_bytes
    /\ cc.disk0.free_bytes + TotalBytes(SubSeq(o, 1, j)) >= cc.cfg.min_free_bytes

\* The evicted entries are the shortest prefix, of the files in ascending
\* order of key, after which the thresholds hold (all of them if they never do).
ShortestPrefixBy(key(_)) ==
    \E o \in ScanOrders(FilesFound) :
       /\ \A i, j \in 1..Len(o) : i < j => key(o[i]) <= key(o[j])
       /\ \E k \in 0..Len(o) :
             /\ Evicted = {o[j] : j \in 1..k}
             /\ \A j \in 0..(k - 1) : ~HoldAfter(o, j)
             /\ k = Len(o) \/ HoldAfter(o, k)

\* A pass over a directory that returned a result.
CacheCleanReturned ==
    /\ cc.pc = "done"
    /\ cc.error = ""
    /\ cc.cfg.enabled
    /\ cc.disk0.kind = "dir"

StAtime(e) == e.st_atime
StMtime(e) == e.st_mtime
AtimeOrMtime(e) == IF e.st_atime # 0 THEN e.st_atime ELSE e.st_mtime

\* C24 as stated: the files a pass deletes are the shortest prefix of the
\* entries in ascending order of last-access time (lru) or last-modified
\* time (oldest) after which both thresholds hold on the running totals.
C24_ShortestPrefixByPolicyKey ==
    CacheCleanReturned =>
        IF cc.cfg.eviction_policy = "lru"
        THEN ShortestPrefixBy(StAtime)
        ELSE ShortestPrefixBy(StMtime)

\* C24, amended: under lru the key of a file whose st_atime is 0 is its
\* st_mtime.
C24_ShortestPrefixByAccessTs ==
    CacheCleanReturned =>
        IF cc.cfg.eviction_policy = "lru"
        THEN ShortestPrefixBy(AtimeOrMtime)
        ELSE ShortestPrefixBy(StMtime)

\* A pass under lru that stopped after its first deletion and kept a file.
C24_Witness ==
    /\ CacheCleanReturned
    /\ cc.cfg.eviction_policy = "lru"
    /\ cc.deleted_files = 1
    /\ Cardinality(Evicted) = 1
    /\ \E e \in disk.entries : e.is_file
    /\ \E e \in Evicted : \E f \in disk.entries : f.is_file /\ f.st_mtime < e.st_mtime

\* C25: when the disk-usage query, the scan or a deletion fails, the pass
\* ends in CorpusCacheCleanupError with no result, and deletes nothing from
\* the failure on.
C25_FailureRaisesTypedError ==
    [][(cc'.pc = "done" /\ cc'.fault # "") =>
          /\ cc'.error = "CorpusCacheCleanupError"
          /\ cc'.result = None
          /\ disk'.entries = disk.entries]_vars

\* A deletion failed after an earlier one had succeeded.
C25_Witness ==
    /\ cc.pc = "done"
    /\ cc.fault = "unlink"
    /\ cc.deleted_files = 1
    /\ cc.order # << >>
    /\ Head(cc.order) \in disk.entries


\* ========================================== TokenizerCleanupService.clean
\* core/services/tokenizer/tokenizer_cleanup.py.  tok.kind says what the
\* tokenizers path is, tok.dirs are its entries, tok.runs the entries of the
\* models directory (none when that directory is missing), and tok.now what
\* time.time() returns.  Times are counted in days.

MaxDay == 2            \* latest day on the clock and in a modification time

Days == 0..MaxDay

\* Names are sequences of characters, so that str.strip() has work to do.
TokenizerNames == {<< "a" >>, << "b" >>}
ManifestTokenizerIds == {<< "a" >>, << " ", "a" >>, << " " >>}
RunNames == {"run-1", "run-2"}

\* One entry of the tokenizers directory.
TokenizerEntry(name, is_dir, mtime) ==
    [name |-> name, is_dir |-> is_dir, st_mtime |-> mtime, size_bytes |-> 1]

TokenizerEntries(name) ==
    {TokenizerEntry(name, TRUE, mtime) : mtime \in Days}
    \cup {TokenizerEntry(name, FALSE, 0)}

\* One entry of the models directory: a file, a run directory without
\* manifest.json, one whose manifest cannot be read or parsed, or one whose
\* manifest names tokenizer_id.
RunEntry(name, is_dir, manifest, tokenizer_id) ==
    [name |-> name, is_dir |-> is_dir, manifest |-> manifest,
     tokenizer_id |-> tokenizer_id]

RunEntries(name) ==
    {RunEntry(name, FALSE, "missing", << >>),
     RunEntry(name, TRUE, "missing", << >>),
     RunEntry(name, TRUE, "unreadable", << >>)}
    \cup {RunEntry(name, TRUE, "ok", tid) : tid \in ManifestTokenizerIds}

\* str.strip(): leading and trailing whitespace removed.
RECURSIVE lstrip(_)
lstrip(str) ==
    IF str # << >> /\ Head(str) = " " THEN lstrip(Tail(str)) ELSE str

RECURSIVE rstrip(_)
rstrip(str) ==
    IF str # << >> /\ str[Len(str)] = " "
    THEN rstrip(SubSeq(str, 1, Len(str) - 1)) ELSE str

strip(str) == rstrip(lstrip(str))

\* cfg = settings.app.tokenizer_cleanup
TokenizerCleanupConfigs == [enabled : BOOLEAN, min_unused_days : {0, 1}]

\* Mutant: a manifest that cannot be read is skipped.
manifest_fails_never(run) == FALSE

\* read_text or model_validate_json raises
manifest_fails(run) == run.manifest = "unreadable"

\* The run directories whose manifest.json exists.
runs_with_manifest(runs) == {r \in runs : r.is_dir /\ r.manifest # "missing"}

\* _collect_tokenizers_in_use, when no manifest fails.
collect_tokenizers_in_use(runs) ==
    {strip(r.tokenizer_id) : r \in {x \in runs_with_manifest(runs) : x.manifest = "ok"}}
    \ {<< >>}

\* if age_seconds < min_age_seconds: continue
too_young(age, min_age) == age < min_age

TokCleanResult(deleted_tokenizers, bytes_freed) ==
    Some([deleted_tokenizers |-> deleted_tokenizers, bytes_freed |-> bytes_freed])

\* The pass: its settings, the in-use set and the clock reading it took, the
\* entries t_root.iterdir() has yet to yield, its counters, and how it ended.
\* tok0 is what the pass found, prev what the previous pass left, and again
\* says that the previous pass returned normally and left everything, the
\* clock included, as this pass finds it.
TokClean(pc, cfg, in_use, now, remaining, deleted, freed, result, error, fault, tok0, again, prev) ==
    [pc |-> pc, cfg |-> cfg, in_use |-> in_use, now |-> now,
     remaining |-> remaining, deleted |-> deleted, freed |-> freed,
     result |-> result, error |-> error, fault |-> fault, tok0 |-> tok0,
     again |-> again, prev |-> prev]

TokCleanDone(c, result, error, fault) ==
    TokClean("done", c.cfg, c.in_use, c.now, c.remaining, c.deleted, c.freed,
             result, error, fault, c.tok0, c.again, c.prev)

\* raise TokenizerCleanupError(...) from exc
TokCleanFailed(c, fault) == TokCleanDone(c, None, "TokenizerCleanupError", fault)

TokCleanIdle(cfg, prev) == [pc |-> "idle", prev |-> prev, cfg |-> cfg]

\* clean(), from its entry to the start of the loop over t_root.iterdir().
tok_clean_call ==
    /\ tc.pc = "idle"
    /\ LET cfg == tc.cfg
           again == /\ tc.prev # None
                    /\ tc.prev[1].ok
                    /\ tc.prev[1].tok = tok
           c0 == TokClean("loop", cfg, {}, 0, {}, 0, 0, None, "", "", tok, again,
                          tc.prev)
       IN
       tc' =
         IF ~cfg.enabled THEN TokCleanDone(c0, TokCleanResult(0, 0), "", "")
         ELSE IF tok.kind = "missing"
         THEN TokCleanDone(c0, TokCleanResult(0, 0), "", "")
         ELSE IF tok.kind # "dir" THEN TokCleanFailed(c0, "")
         ELSE IF \E r \in runs_with_manifest(tok.runs) : manifest_fails(r)
         THEN TokCleanFailed(c0, "manifest")
         ELSE TokClean("loop", cfg, collect_tokenizers_in_use(tok.runs), tok.now,
                       tok.dirs, 0, 0, None, "", "", tok, again, tc.prev)
    /\ UNCHANGED tok
    /\ UNCHANGED << dbc, http, dest, remote, rr, cf, cache_dir, cc, disk, ac >>
    /\ UNCHANGED runVars

\* One iteration of `for entry in t_root.iterdir()`, or the end of the loop
\* and the return.  fault: entry.stat() or shutil.rmtree raises OSError.
tok_clean_loop(fault) ==
    /\ tc.pc = "loop"
    /\ IF tc.remaining = {}
       THEN /\ fault = ""
            /\ tc' = TokCleanDone(tc, TokCleanResult(tc.deleted, tc.freed), "", "")
            /\ UNCHANGED tok
       ELSE \E entry \in tc.remaining :
            LET next == [tc EXCEPT !.remaining = @ \ {entry}] IN
            IF ~entry.is_dir \/ entry.name \in tc.in_use
            THEN /\ fault = ""
                 /\ tc' = next
                 /\ UNCHANGED tok
            ELSE IF fault = "stat"
            THEN /\ tc' = TokCleanFailed(tc, fault)
                 /\ UNCHANGED tok
            ELSE IF too_young(tc.now - entry.st_mtime, tc.cfg.min_unused_days)
            THEN /\ fault = ""
                 /\ tc' = next
                 /\ UNCHANGED tok
            ELSE IF fault = "rmtree"
            THEN /\ tc' = TokCleanFailed(tc, fault)
                 /\ UNCHANGED tok
            ELSE /\ tok' = [tok EXCEPT !.dirs = @ \ {entry}]
                 /\ tc' = [next EXCEPT !.deleted = @ + 1,
                                       !.freed = @ + entry.size_bytes]
    /\ UNCHANGED << dbc, http, dest, remote, rr, cf, cache_dir, cc, disk, ac >>
    /\ UNCHANGED runVars

tok_clean_return ==
    /\ tc.pc = "done"
    /\ tc' = TokCleanIdle(tc.cfg, Some([ok |-> tc.error = "", tok |-> tok,
                                        deleted |-> tc.deleted]))
    /\ UNCHANGED tok
    /\ UNCHANGED << dbc, http, dest, remote, rr, cf, cache_dir, cc, disk, ac >>
    /\ UNCHANGED runVars

\* Time passes between two passes.
clock_ticks ==
    /\ tc.pc = "idle"
    /\ tok.now < MaxDay
    /\ tok' = [tok EXCEPT !.now = @ + 1]
    /\ UNCHANGED tc
    /\ UNCHANGED << dbc, http, dest, remote, rr, cf, cache_dir, cc, disk, ac >>
    /\ UNCHANGED runVars

\* A service with any settings, any tokenizers directory (or none, or a file
\* in its place) and any models directory.
InitTokClean ==
    /\ registry = None
    /\ store = << >>
    /\ queue = << >>
    /\ rundirs = {}
    /\ weights = {}
    /\ manifests = {}
    /\ api = ApiIdle
    /\ w = WorkerIdle
    /\ last = [op |-> "init"]
    /\ dbc = ClientIdle
    /\ http = << >>
    /\ dest = None
    /\ remote = [content |-> << >>, etag |-> << "", << >> >>]
    /\ rr = ClientIdle
    /\ cf = ClientIdle
    /\ cache_dir = [final |-> None, tmp |-> None]
    /\ cc = ServiceNone
    /\ disk = [kind |-> "missing", entries |-> {}, free_bytes |-> 0]
    /\ ac = ServiceNone
    /\ \E cfg \in TokenizerCleanupConfigs : tc = TokCleanIdle(cfg, None)
    /\ \E now \in Days, rnames \in SUBSET RunNames :
       \E runs \in [rnames -> UNION {RunEntries(n) : n \in RunNames}] :
          /\ \A n \in rnames : runs[n].name = n
          /\ \/ \E kind \in {"missing", "file"} :
                   tok = [kind |-> kind, dirs |-> {},
                          runs |-> {runs[n] : n \in rnames}, now |-> now]
             \/ \E names \in SUBSET TokenizerNames :
                \E f \in [names -> UNION {TokenizerEntries(n) : n \in TokenizerNames}] :
                   /\ \A n \in names : f[n].name = n
                   /\ tok = [kind |-> "dir", dirs |-> {f[n] : n \in names},
                             runs |-> {runs[n] : n \in rnames}, now |-> now]

NextTokClean ==
    \/ tok_clean_call
    \/ \E fault \in {"", "stat", "rmtree"} : tok_clean_loop(fault)
    \/ tok_clean_return
    \/ clock_ticks

SpecTokClean == InitTokClean /\ [][NextTokClean]_vars

\* The tokenizer ids the run manifests name, stripped, blanks left out.
ReferencedIds ==
    {strip(r.tokenizer_id) :
        r \in {x \in tc.tok0.runs : x.is_dir /\ x.manifest = "ok"}} \ {<< >>}

\* A pass over a tokenizers directory that returned a result.
TokCleanReturned ==
    /\ tc.pc = "done"
    /\ tc.error = ""
    /\ tc.cfg.enabled
    /\ tc.tok0.kind = "dir"

\* C27: a pass deletes a tokenizer directory if and only if no run manifest
\* names it and its age exceeds min_unused_days; other entries are not
\* touched.
C27_DeletedIffUnreferencedAndOlder ==
    TokCleanReturned =>
        tc.tok0.dirs \ tok.dirs =
            {e \in tc.tok0.dirs :
                /\ e.is_dir
                /\ e.name \notin ReferencedIds
                /\ tc.tok0.now - e.st_mtime > tc.cfg.min_unused_days}

\* What the pass does: it deletes as C27 says, except that a directory whose
\* age equals min_unused_days is deleted too.
DeletedIffUnreferencedAndNotYounger ==
    TokCleanReturned =>
        tc.tok0.dirs \ tok.dirs =
            {e \in tc.tok0.dirs :
                /\ e.is_dir
                /\ e.name \notin ReferencedIds
                /\ tc.tok0.now - e.st_mtime >= tc.cfg.min_unused_days}

\* The runs whose manifest cannot be read or parsed.
UnreadableManifests == {r \in tc.tok0.runs : r.is_dir /\ r.manifest = "unreadable"}

\* C28: with a manifest that cannot be read or parsed, a pass raises
\* TokenizerCleanupError and has deleted no tokenizer directory.
C28_ManifestFailureAbortsBeforeDeletion ==
    (/\ tc.pc # "idle"
     /\ tc.cfg.enabled
     /\ tc.tok0.kind = "dir"
     /\ UnreadableManifests # {}) =>
        /\ tc.pc = "done"
        /\ tc.error = "TokenizerCleanupError"
        /\ tc.result = None
        /\ tok.dirs = tc.tok0.dirs

\* The pass failed on a manifest although an unreferenced directory was old
\* enough to be deleted.
C28_Witness ==
    /\ tc.pc = "done"
    /\ tc.cfg.enabled
    /\ tc.tok0.kind = "dir"
    /\ UnreadableManifests # {}
    /\ tc.error = "TokenizerCleanupError"
    /\ \E e \in tok.dirs :
          /\ e.is_dir
          /\ e.name \notin ReferencedIds
          /\ tc.tok0.now - e.st_mtime > tc.cfg.min_unused_days


\* ================================================== cleanup_run_artifacts
\* core/services/storage/artifact_cleanup.py.  artifact_dir is the run's
\* model directory: it exists when it holds the manifest or the weights, and
\* shutil.rmtree removes both.

\* settings.app.cleanup
CleanupConfigs ==
    [enabled : BOOLEAN, verify_upload : BOOLEAN, dry_run : BOOLEAN,
     grace_period_seconds : {0, 1}]

\* The values of runs:artifact:{run_id}:file_id, as characters.
FileIds == {<< " " >>, << "f" >>}

ArtifactKey(run_id) == << "runs:artifact:", run_id, ":file_id" >>

\* artifact_path.exists()
artifact_dir_exists(run_id, m, wt) == run_id \in m \cup wt

\* _count_files / _calculate_directory_size: one file of one byte each for
\* the manifest and for the weights.
count_files(run_id, m, wt) ==
    (IF run_id \in m THEN 1 ELSE 0) + (IF run_id \in wt THEN 1 ELSE 0)

\* Mutant: any value of the key counts as an upload.
upload_verified_any(file_id) == file_id # None

\* not (not isinstance(file_id, str) or file_id.strip() == "")
upload_verified(file_id) == file_id # None /\ strip(file_id[1]) # << >>

\* status in ("completed", "failed", "canceled")
is_terminal(status) ==
    status \in {Some("completed"), Some("failed"), Some("canceled")}

CleanupResult(deleted, bytes_freed, files_deleted, reason) ==
    Some([deleted |-> deleted, bytes_freed |-> bytes_freed,
          files_deleted |-> files_deleted, reason |-> reason])

\* The call: its position, what it has read so far (unread values are
\* None, exists is FALSE until the directory was found), and how it ended.
\* prev is what the previous call left, and again says that it returned
\* normally and left the store and the directory as this call finds them.
ArtifactCleanup(pc, run_id, cfg, exists, file_id, status, result, error, again, prev) ==
    [pc |-> pc, run_id |-> run_id, cfg |-> cfg, exists |-> exists,
     file_id |-> file_id, status |-> status, result |-> result,
     error |-> error, again |-> again, prev |-> prev]

ArtifactCleanupAt(c, pc) ==
    ArtifactCleanup(pc, c.run_id, c.cfg, c.exists, c.file_id, c.status,
                    c.result, c.error, c.again, c.prev)

\* return CleanupResult(deleted=False, ..., reason=reason)
ArtifactCleanupSkipped(c, reason) ==
    ArtifactCleanup("done", c.run_id, c.cfg, c.exists, c.file_id, c.status,
                    CleanupResult(FALSE, 0, 0, reason), "", c.again, c.prev)

ArtifactIdle(cfg, prev) == [pc |-> "idle", prev |-> prev, cfg |-> cfg]

\* cleanup_run_artifacts(run_id, artifact_dir): the enabled flag and the
\* existence of the directory.
artifact_cleanup_call(run_id) ==
    /\ ac.pc = "idle"
    /\ LET exists == artifact_dir_exists(run_id, manifests, weights)
           again == /\ ac.prev # None
                    /\ ac.prev[1].ok
                    /\ ac.prev[1].run_id = run_id
                    /\ ac.prev[1].state = << store, manifests, weights >>
           c0 == ArtifactCleanup("verify", run_id, ac.cfg, FALSE, None, None,
                                 None, "", again, ac.prev)
       IN
       ac' = IF ~ac.cfg.enabled THEN ArtifactCleanupSkipped(c0, "cleanup_disabled")
             ELSE IF ~exists THEN ArtifactCleanupSkipped(c0, "directory_not_found")
             ELSE [c0 EXCEPT !.exists = TRUE]
    /\ UNCHANGED runVars
    /\ UNCHANGED << dbc, http, dest, remote, rr, cf, cache_dir, cc, disk, tc, tok >>

\* if verify_upload: file_id = redis_client.get(file_id_key)
artifact_cleanup_verify ==
    /\ ac.pc = "verify"
    /\ ac' = IF ac.cfg.verify_upload
             THEN LET file_id == RedisGet(store, ArtifactKey(ac.run_id)) IN
                  IF upload_verified(file_id)
                  THEN [ArtifactCleanupAt(ac, "status") EXCEPT !.file_id = file_id]
                  ELSE ArtifactCleanupSkipped([ac EXCEPT !.file_id = file_id],
                                              "upload_not_verified")
             ELSE ArtifactCleanupAt(ac, "status")
    /\ UNCHANGED runVars
    /\ UNCHANGED << dbc, http, dest, remote, rr, cf, cache_dir, cc, disk, tc, tok >>

\* status = redis_client.get(status_key), and the choice to sleep
artifact_cleanup_status ==
    /\ ac.pc = "status"
    /\ LET status == RedisGet(store, StatusKey(ac.run_id))
           c == [ac EXCEPT !.status = status]
       IN
       ac' = IF ~is_terminal(status)
             THEN ArtifactCleanupSkipped(c, "run_not_terminal")
             ELSE IF ac.cfg.grace_period_seconds > 0
             THEN ArtifactCleanupAt(c, "sleep")
             ELSE ArtifactCleanupAt(c, "delete")
    /\ UNCHANGED runVars
    /\ UNCHANGED << dbc, http, dest, remote, rr, cf, cache_dir, cc, disk, tc, tok >>

\* time.sleep(grace)
artifact_cleanup_sleep ==
    /\ ac.pc = "sleep"
    /\ ac' = ArtifactCleanupAt(ac, "delete")
    /\ UNCHANGED runVars
    /\ UNCHANGED << dbc, http, dest, remote, rr, cf, cache_dir, cc, disk, tc, tok >>

\* The size and the count, the dry-run return, shutil.rmtree.
artifact_cleanup_delete(rmtree_fails) ==
    /\ ac.pc = "delete"
    /\ LET n == count_files(ac.run_id, manifests, weights) IN
       IF ac.cfg.dry_run
       THEN /\ ~rmtree_fails
            /\ ac' = ArtifactCleanupSkipped(ac, "dry_run")
            /\ UNCHANGED << weights, manifests >>
       ELSE IF rmtree_fails
       THEN /\ ac' = [ArtifactCleanupAt(ac, "done") EXCEPT !.error = "CleanupError"]
            /\ UNCHANGED << weights, manifests >>
       ELSE /\ weights' = weights \ {ac.run_id}
            /\ manifests' = manifests \ {ac.run_id}
            /\ ac' = [ArtifactCleanupAt(ac, "done") EXCEPT
                         !.result = CleanupResult(TRUE, n, n, "")]
    /\ UNCHANGED << registry, store, queue, rundirs, api, w, last >>
    /\ UNCHANGED << dbc, http, dest, remote, rr, cf, cache_dir, cc, disk, tc, tok >>

artifact_cleanup_return ==
    /\ ac.pc = "done"
    /\ ac' = ArtifactIdle(ac.cfg,
                          Some([ok |-> ac.error = "", run_id |-> ac.run_id,
                                state |-> << store, manifests, weights >>]))
    /\ UNCHANGED runVars
    /\ UNCHANGED << dbc, http, dest, remote, rr, cf, cache_dir, cc, disk, tc, tok >>

\* No run yet, and a service whose settings let it delete: enabled, not a
\* dry run, and not asking for the artifact pointer, which nothing in the
\* worker writes.
InitArtifactRace ==
    /\ registry = None
    /\ store = << >>
    /\ queue = << >>
    /\ rundirs = {}
    /\ weights = {}
    /\ manifests = {}
    /\ api = ApiIdle
    /\ w = WorkerIdle
    /\ last = [op |-> "init"]
    /\ dbc = ClientIdle
    /\ http = << >>
    /\ dest = None
    /\ remote = [content |-> << >>, etag |-> << "", << >> >>]
    /\ rr = ClientIdle
    /\ cf = ClientIdle
    /\ cache_dir = [final |-> None, tmp |-> None]
    /\ cc = ServiceNone
    /\ disk = [kind |-> "missing", entries |-> {}, free_bytes |-> 0]
    /\ tc = ServiceNone
    /\ tok = [kind |-> "missing", dirs |-> {}, runs |-> {}, now |-> 0]
    /\ \E cfg \in CleanupConfigs :
          /\ cfg.enabled /\ ~cfg.dry_run /\ ~cfg.verify_upload
          /\ ac = ArtifactIdle(cfg, None)

\* One call of cleanup_run_artifacts at any moment of the worker's
\* executions of process_train_job (no run is cancelled here).
NextArtifactRace ==
    \/ \E run_id \in RunIds : submit_train_job(run_id)
    \/ process_train_job_start
    \/ \E ts \in Times : process_train_job_heartbeat(ts)
    \/ process_train_job_prepare
    \/ \E ts \in Times : train_prepared_gpt2_loop(ts)
    \/ train_prepared_gpt2_finish
    \/ process_train_job_result
    \/ process_train_job_completed
    \/ process_train_job_save
    \/ process_train_job_except
    \/ process_train_job_reraise
    \/ \E run_id \in RunIds : artifact_cleanup_call(run_id)
    \/ artifact_cleanup_verify
    \/ artifact_cleanup_status
    \/ artifact_cleanup_sleep
    \/ \E rmtree_fails \in BOOLEAN : artifact_cleanup_delete(rmtree_fails)

SpecArtifactRace == InitArtifactRace /\ [][NextArtifactRace]_vars


\* Runs at rest with their model directory, and the artifact pointer absent,
\* blank or set; a service with any settings.
InitArtifact ==
    /\ registry = None
    /\ queue = << >>
    /\ api = ApiIdle
    /\ w = WorkerIdle
    /\ last = [op |-> "init"]
    /\ dbc = ClientIdle
    /\ http = << >>
    /\ dest = None
    /\ remote = [content |-> << >>, etag |-> << "", << >> >>]
    /\ rr = ClientIdle
    /\ cf = ClientIdle
    /\ cache_dir = [final |-> None, tmp |-> None]
    /\ cc = ServiceNone
    /\ disk = [kind |-> "missing", entries |-> {}, free_bytes |-> 0]
    /\ tc = ServiceNone
    /\ tok = [kind |-> "missing", dirs |-> {}, runs |-> {}, now |-> 0]
    /\ \E cfg \in CleanupConfigs : ac = ArtifactIdle(cfg, None)
    /\ \E run_id \in RunIds, stage \in Stages :
          /\ \/ store = TrainedStore(run_id, stage)
             \/ \E file_id \in FileIds :
                   store = RedisSet(TrainedStore(run_id, stage),
                                    ArtifactKey(run_id), file_id)
          /\ rundirs = IF stage = "none" THEN {} ELSE {run_id}
          /\ \/ /\ stage \in {"running", "completed", "cancelled"}
                /\ manifests = {run_id}
                /\ weights \in IF stage = "cancelled" THEN {{}} ELSE {{}, {run_id}}
             \/ /\ stage # "completed"
                /\ manifests = {}
                /\ weights = {}

NextArtifact ==
    \/ \E run_id \in RunIds : artifact_cleanup_call(run_id)
    \/ artifact_cleanup_verify
    \/ artifact_cleanup_status
    \/ artifact_cleanup_sleep
    \/ \E rmtree_fails \in BOOLEAN : artifact_cleanup_delete(rmtree_fails)
    \/ artifact_cleanup_return

SpecArtifact == InitArtifact /\ [][NextArtifact]_vars

\* The reason of the first gate that fails for what the call has read, ""
\* when none does.
FirstFailingGate(c) ==
    IF ~c.cfg.enabled THEN "cleanup_disabled"
    ELSE IF ~c.exists THEN "directory_not_found"
    ELSE IF c.cfg.verify_upload
            /\ (c.file_id = None
                \/ \A k \in 1..Len(c.file_id[1]) : c.file_id[1][k] = " ")
    THEN "upload_not_verified"
    ELSE IF c.status \notin {<< "completed" >>, << "failed" >>, << "canceled" >>}
    THEN "run_not_terminal"
    ELSE IF c.cfg.dry_run THEN "dry_run"
    ELSE ""

DirOf(run_id, m, wt) == << run_id \in m, run_id \in wt >>

\* C29: the call reads the directory, the pointer and the status as they
\* are; it deletes the directory exactly when no gate fails, and otherwise
\* returns deleted=false with the reason of the first failing gate and
\* leaves the directory untouched.
C29_DeletesIffAllGatesPass ==
    [][/\ (ac.pc = "idle" /\ ac'.pc # "idle" /\ ac'.cfg.enabled) =>
             ac'.exists = (ac'.run_id \in manifests \cup weights)
       /\ (ac.pc = "verify" /\ ac'.pc # "verify" /\ ac.cfg.verify_upload) =>
             ac'.file_id =
                 (IF << "runs:artifact:", ac.run_id, ":file_id" >> \in DOMAIN store
                  THEN << store[<< "runs:artifact:", ac.run_id, ":file_id" >>] >>
                  ELSE << >>)
       /\ (ac.pc = "status" /\ ac'.pc # "status") =>
             ac'.status =
                 (IF << "runs:status:", ac.run_id, "" >> \in DOMAIN store
                  THEN << store[<< "runs:status:", ac.run_id, "" >>] >>
                  ELSE << >>)
       /\ (ac.pc \notin {"idle", "done"} /\ ac'.pc = "done" /\ ac'.error = "") =>
             /\ ac'.result[1].deleted = (FirstFailingGate(ac') = "")
             /\ ac'.result[1].reason = FirstFailingGate(ac')
             /\ ac'.result[1].deleted =>
                   DirOf(ac.run_id, manifests', weights') = << FALSE, FALSE >>
             /\ ~ac'.result[1].deleted =>
                   DirOf(ac.run_id, manifests', weights')
                       = DirOf(ac.run_id, manifests, weights)
       /\ (ac.pc = "idle" /\ ac'.pc = "done") =>
             /\ ac'.result[1].deleted = FALSE
             /\ ac'.result[1].reason = FirstFailingGate(ac')
             /\ << manifests', weights' >> = << manifests, weights >>]_vars

\* The call deleted a directory after every gate had passed with
\* verify_upload set.
C29_Witness ==
    /\ ac.pc = "done"
    /\ ac.cfg.verify_upload
    /\ ac.error = ""
    /\ ac.result[1].deleted
    /\ ac.result[1].files_deleted = 2
    /\ ac.run_id \notin manifests \cup weights

\* C30: the run's directory is never deleted while the run's status is
\* queued or running.
C30_NeverDeletedWhileInFlight ==
    [][\A run_id \in RunIds :
          (/\ run_id \in manifests \cup weights
           /\ run_id \notin manifests' \cup weights') =>
              /\ << "runs:status:", run_id, "" >> \in DOMAIN store
              /\ store[<< "runs:status:", run_id, "" >>] \notin {"queued", "running"}]_vars


\* ------------------------------------------ the three cleanup services
\* One of the three services, constructed over its directory.
InitCleanup == InitCacheClean \/ InitTokClean \/ InitArtifact

NextCleanup == NextCacheClean \/ NextTokClean \/ NextArtifact

SpecCleanup == InitCleanup /\ [][NextCleanup]_vars

TokStatusKey(tokenizer_id) == << "tokenizer:", tokenizer_id, ":status" >>
TokStatsKey(tokenizer_id) == << "tokenizer:", tokenizer_id, ":stats" >>

\* The per-process secret of Python's str hash (PYTHONHASHSEED is not set by
\* the service, so every interpreter start draws one).
HashSecrets == {0, 1}

Methods == {"bpe", "sentencepiece"}
\* corpus_file_id values as character sequences, for strip().
CorpusFileIds == {<< " " >>, << "f" >>, << "f", " " >>}

\* TokenizerTrainRequest (api/schemas/tokenizers.py).
TokenizerTrainRequests ==
    [method : Methods, vocab_size : {128}, min_frequency : {1, 2},
     corpus_file_id : {None} \cup {Some(f) : f \in CorpusFileIds},
     holdout_fraction : {1}, seed : {42}]

\* CorpusFetcher.fetch returns cache_dir / f"{file_id}.txt".
cache_path(fid) == << "corpus_cache/", fid, ".txt" >>

Abs(n) == IF n < 0 THEN -n ELSE n

\* hash(str): a value that depends on the string and on the process's
\* secret.
str_hash(secret, code) == IF secret = 0 THEN code ELSE -(3 * code + 1)
method_hash(secret, method) == str_hash(secret, IF method = "bpe" THEN 1 ELSE 2)
path_hash(secret, path) == str_hash(secret, 3 + Len(path[2]))

\* hash(tuple): a combination of the hashes of the items; hash(int) is the
\* int itself.
py_hash(secret, method, vocab_size, resolved_corpus, seed) ==
    1000 * method_hash(secret, method) + 100 * path_hash(secret, resolved_corpus)
        + vocab_size + seed

\* lines 61-62: abs(hash((method, vocab_size, resolved_corpus, seed))) % 10**10,
\* formatted as "tok-{:010d}". The hashes above are all below 10**10, so
\* the remainder leaves them as they are.
tokenizer_id_of(secret, method, vocab_size, resolved_corpus, seed) ==
    << "tok-", Abs(py_hash(secret, method, vocab_size, resolved_corpus, seed)) >>

TokenizerIds ==
    {tokenizer_id_of(secret, method, 128, cache_path(<< "f" >>), 42) :
        secret \in HashSecrets, method \in Methods}

\* TokenizerTrainPayload as the orchestrator builds it (lines 64-72): it has
\* "corpus_path" and no "corpus_file_id".
TokenizerPayload(tokenizer_id, method, resolved_corpus) ==
    [kind |-> "tokenizer", tokenizer_id |-> tokenizer_id, method |-> method,
     corpus_path |-> Some(resolved_corpus), corpus_file_id |-> None,
     retries_left |-> RetryMax]

enqueue_tokenizer(q, payload) == Append(q, payload)

MaxTokenizers == 2     \* distinct tokenizer ids in use over a behaviour

\* The tokenizer ids the store, the queue, the worker or the request in
\* flight mention.
KnownTokenizers ==
    {id \in TokenizerIds : TokStatusKey(id) \in DOMAIN store}
        \cup {queue[i].tokenizer_id : i \in 1..Len(queue)}
        \cup (IF w.pc = "idle" THEN {} ELSE {w.job.tokenizer_id})
        \cup (IF api.pc = "idle" THEN {} ELSE {api.tokenizer_id})

\* The id is in use already, or one more tokenizer fits the bound.
TokenizerAdmitted(tokenizer_id) ==
    \/ tokenizer_id \in KnownTokenizers
    \/ Cardinality(KnownTokenizers) < MaxTokenizers

\* The API process between requests: its hash secret and the responses it
\* and its predecessors have returned.
TokApiIdle(secret, responses) ==
    [pc |-> "idle", hash_secret |-> secret, responses |-> responses]

\* enqueue_training raised before its first write: nothing has changed.
TokApiRaise(req, error) == UNCHANGED << store, api >>

\* enqueue_training, lines 42-63: backend check, file id, fetch, the id and
\* the queued write.
tokenizer_enqueue_begin(req, has_spm_cli, fetch_fails) ==
    /\ api.pc = "idle"
    /\ IF req.method = "sentencepiece" /\ ~has_spm_cli
       THEN TokApiRaise(req, "CONFIG_INVALID")
       ELSE IF req.corpus_file_id = None
       THEN TokApiRaise(req, "AttributeError")       \* None.strip(), line 51
       ELSE IF strip(req.corpus_file_id[1]) = << >>
       THEN TokApiRaise(req, "CONFIG_INVALID")
       ELSE IF fetch_fails
       THEN TokApiRaise(req, "AppError")             \* fetch raised, line 59
       ELSE LET resolved_corpus == cache_path(strip(req.corpus_file_id[1]))
                tokenizer_id == tokenizer_id_of(api.hash_secret, req.method,
                                    req.vocab_size, resolved_corpus, req.seed)
            IN /\ TokenizerAdmitted(tokenizer_id)
               /\ store' = RedisSet(store, TokStatusKey(tokenizer_id), "queued")
               /\ api' = [pc |-> "tok_queued", hash_secret |-> api.hash_secret,
                          responses |-> api.responses, method |-> req.method,
                          vocab_size |-> req.vocab_size, seed |-> req.seed,
                          resolved_corpus |-> resolved_corpus,
                          tokenizer_id |-> tokenizer_id]
    /\ UNCHANGED << registry, queue, rundirs, weights, manifests, w, last >>
    /\ UNCHANGED clientVars

\* enqueue_training, lines 83-89: the hand-over to the queue adapter and the
\* response.
tokenizer_enqueue_end ==
    /\ api.pc = "tok_queued"
    /\ \/ /\ Len(queue) < MaxQueue
          /\ queue' = enqueue_tokenizer(queue,
                        TokenizerPayload(api.tokenizer_id, api.method, api.resolved_corpus))
          /\ api' = TokApiIdle(api.hash_secret,
                       api.responses \cup
                         {<< api.method, api.vocab_size,
                             api.resolved_corpus, api.seed, api.tokenizer_id >>})
       \/ /\ api' = TokApiIdle(api.hash_secret, api.responses)
          /\ UNCHANGED queue
    /\ UNCHANGED << registry, store, rundirs, weights, manifests, w, last >>
    /\ UNCHANGED clientVars

\* The API process is restarted (or another API process takes the next
\* request): the interpreter draws its hash secret anew.
api_restart(secret) ==
    /\ api.pc = "idle"
    /\ secret # api.hash_secret
    /\ api' = TokApiIdle(secret, api.responses)
    /\ UNCHANGED << registry, store, queue, rundirs, weights, manifests, w, last >>
    /\ UNCHANGED clientVars

\* A tokenizer payload put on the queue through RQEnqueuer.enqueue_tokenizer
\* by a producer that supplies the "corpus_file_id" key the worker reads,
\* under the id some API process gave the same request.
submit_tokenizer_job(secret, method) ==
    /\ Len(queue) < MaxQueue
    /\ TokenizerAdmitted(tokenizer_id_of(secret, method, 128, cache_path(<< "f" >>), 42))
    /\ queue' = enqueue_tokenizer(queue,
                  [kind |-> "tokenizer",
                   tokenizer_id |-> tokenizer_id_of(secret, method, 128,
                                                    cache_path(<< "f" >>), 42),
                   method |-> method, corpus_path |-> None,
                   corpus_file_id |-> Some(<< "f" >>),
                   retries_left |-> RetryMax])
    /\ UNCHANGED << registry, store, rundirs, weights, manifests, api, w, last >>
    /\ UNCHANGED clientVars

\* The job function raised: RQ takes the job back, the worker is free.
TokJobRaised ==
    /\ queue' = rq_retry(queue, w.job)
    /\ w' = WorkerIdle
    /\ UNCHANGED store

\* process_tokenizer_train_job, line 33: the running write.
tokenizer_job_start ==
    /\ w.pc = "idle"
    /\ queue # << >>
    /\ Head(queue).kind = "tokenizer"
    /\ store' = RedisSet(store, TokStatusKey(Head(queue).tokenizer_id), "running")
    /\ queue' = Tail(queue)
    /\ w' = [pc |-> "k_fetch", job |-> Head(queue)]
    /\ UNCHANGED << registry, rundirs, weights, manifests, api, last >>
    /\ UNCHANGED clientVars

\* lines 61-67: payload["corpus_file_id"] and the corpus fetch.
tokenizer_job_fetch(fetch_fails) ==
    /\ w.pc = "k_fetch"
    /\ IF w.job.corpus_file_id = None \/ fetch_fails
       THEN TokJobRaised             \* KeyError at line 61, or fetch raised
       ELSE /\ w' = [w EXCEPT !.pc = "k_train"]
            /\ UNCHANGED << store, queue >>
    /\ UNCHANGED << registry, rundirs, weights, manifests, api, last >>
    /\ UNCHANGED clientVars

\* backend.train(cfg) raises, lines 97 and 108: nothing catches it.
train_raises(train_fails) == train_fails

\* lines 95-98, 104-109 and 114: the backend's train and the status write
\* of the branch taken.
tokenizer_job_train(has_spm_cli, train_fails) ==
    /\ w.pc = "k_train"
    /\ IF w.job.method = "bpe" \/ has_spm_cli
       THEN IF train_raises(train_fails)
            THEN TokJobRaised
            ELSE /\ store' = RedisSet(store, TokStatusKey(w.job.tokenizer_id), "completed")
                 /\ w' = [w EXCEPT !.pc = "k_stats"]
                 /\ UNCHANGED queue
       ELSE /\ store' = RedisSet(store, TokStatusKey(w.job.tokenizer_id), "failed")
            /\ w' = WorkerIdle
            /\ UNCHANGED queue
    /\ UNCHANGED << registry, rundirs, weights, manifests, api, last >>
    /\ UNCHANGED clientVars

\* lines 99 and 110: the stats write, and the return.
tokenizer_job_stats ==
    /\ w.pc = "k_stats"
    /\ store' = RedisSet(store, TokStatsKey(w.job.tokenizer_id),
                         "stats")
    /\ w' = WorkerIdle
    /\ UNCHANGED << registry, queue, rundirs, weights, manifests, api, last >>
    /\ UNCHANGED clientVars

InitTokJob ==
    /\ ClientsInit
    /\ registry = None
    /\ store = << >>
    /\ queue = << >>
    /\ rundirs = {}
    /\ weights = {}
    /\ manifests = {}
    /\ \E secret \in HashSecrets : api = TokApiIdle(secret, {})
    /\ w = WorkerIdle
    /\ last = [op |-> "init"]

NextTokJob ==
    \/ \E req \in TokenizerTrainRequests, has_spm_cli \in BOOLEAN, fetch_fails \in BOOLEAN :
          tokenizer_enqueue_begin(req, has_spm_cli, fetch_fails)
    \/ tokenizer_enqueue_end
    \/ \E secret \in HashSecrets : api_restart(secret)
    \/ \E secret \in HashSecrets, method \in Methods :
          submit_tokenizer_job(secret, method)
    \/ tokenizer_job_start
    \/ \E fetch_fails \in BOOLEAN : tokenizer_job_fetch(fetch_fails)
    \/ \E has_spm_cli \in BOOLEAN, train_fails \in BOOLEAN :
          tokenizer_job_train(has_spm_cli, train_fails)
    \/ tokenizer_job_stats

SpecTokJob == InitTokJob /\ [][NextTokJob]_vars

\* ----------------------------------------------- tokenizer job properties
TokStatusOf(s, tokenizer_id) == RedisGet(s, << "tokenizer:", tokenizer_id, ":status" >>)
TokStatsOf(s, tokenizer_id) == RedisGet(s, << "tokenizer:", tokenizer_id, ":stats" >>)

\* C31: two enqueue_training responses for requests that agree on method,
\* vocab_size, resolved corpus path and seed carry the same tokenizer_id,
\* whichever API process (before or after a restart) handled them.
C31_TokenizerIdDeterministic ==
    \A p, q \in api.responses :
        (p[1] = q[1] /\ p[2] = q[2] /\ p[3] = q[3] /\ p[4] = q[4]) => p[5] = q[5]

\* C32: tokenizer:{id}:stats is written only by the worker step that follows
\* its completed write, at most once per tokenizer_id, and whenever the
\* stats key exists the status of that tokenizer is completed.
C32_StatsWrittenOnceOnCompletion ==
    [][\A id \in TokenizerIds :
          /\ TokStatsOf(store', id) # TokStatsOf(store, id) =>
                /\ w.pc = "k_stats" /\ w.job.tokenizer_id = id
                /\ TokStatusOf(store', id) = Some("completed")
          /\ (w.pc = "k_stats" /\ w.job.tokenizer_id = id /\ w'.pc = "idle") =>
                TokStatsOf(store, id) = None
          /\ TokStatsOf(store', id) # None =>
                TokStatusOf(store', id) = Some("completed")]_vars

\* C34: when an execution of process_tokenizer_train_job returns or raises
\* (the worker goes from a position inside the job function to idle),
\* tokenizer:{id}:status is completed or failed.
C34_TokenizerJobEndsTerminal ==
    [][(w.pc \in {"k_fetch", "k_train", "k_stats"} /\ w'.pc = "idle") =>
          TokStatusOf(store', w.job.tokenizer_id) \in {Some("completed"), Some("failed")}]_vars

\* ======================================================================
\* Tokenizer cleanup next to training: TokenizerCleanupService.clean and
\* process_train_job share the tokenizers directory and the models
\* directory.
\* ======================================================================
\* cfg.tokenizer_id of the train requests: they all name this tokenizer.
RunTokenizerId == << "a" >>

\* os.path.exists(tok_json) or os.path.exists(tok_spm), lines 245-247
tokenizer_artifact_exists(dirs, tokenizer_id) ==
    \E e \in dirs : e.is_dir /\ e.name = tokenizer_id

\* process_train_job, lines 240-254, with the tokenizers directory in view:
\* the tokenizer artifact is looked up and loaded, or FileNotFoundError is
\* raised inside the try block; then backend.prepare and the dataloader.
process_train_job_tokenizer ==
    /\ w.pc = "t_prepare"
    /\ IF tokenizer_artifact_exists(tok.dirs, RunTokenizerId)
       THEN \E e \in 1..MaxEpochs, n \in 0..MaxBatches :
               w' = [pc |-> "t_loop", job |-> w.job, num_epochs |-> e, epoch |-> 0,
                     batch |-> 0, nbatches |-> n, step |-> 0,
                     was_cancelled |-> FALSE]
       ELSE w' = [pc |-> "t_except", job |-> w.job,
                  exc |-> "Tokenizer artifact not found"]
    /\ last' = WorkerStep("process_train_job", w.job.run_id, "running")
    /\ UNCHANGED << registry, store, queue, rundirs, weights, manifests, api >>
    /\ UNCHANGED clientVars

\* train_prepared_gpt2, lines 148-179, with the models directory in view:
\* the weights are saved unless cancelled and manifest.json, which names
\* cfg.tokenizer_id, is written.
train_prepared_gpt2_manifest ==
    /\ w.pc = "t_finish"
    /\ weights' = IF saves_weights(w.was_cancelled)
                  THEN weights \cup {w.job.run_id} ELSE weights
    /\ manifests' = manifests \cup {w.job.run_id}
    /\ tok' = [tok EXCEPT !.runs =
                  {r \in @ : r.name # w.job.run_id}
                  \cup {RunEntry(w.job.run_id, TRUE, "ok", RunTokenizerId)}]
    /\ w' = [w EXCEPT !.pc = "t_result"]
    /\ last' = WorkerStep("process_train_job", w.job.run_id, "running")
    /\ UNCHANGED << registry, store, queue, rundirs, api >>
    /\ UNCHANGED << dbc, http, dest, remote, rr, cf, cache_dir, cc, disk, tc, ac >>

\* An enabled cleanup service, a tokenizers directory that holds the runs'
\* tokenizer, and no run yet.
InitTokRace ==
    /\ registry = None
    /\ store = << >>
    /\ queue = << >>
    /\ rundirs = {}
    /\ weights = {}
    /\ manifests = {}
    /\ api = ApiIdle
    /\ w = WorkerIdle
    /\ last = [op |-> "init"]
    /\ dbc = ClientIdle
    /\ http = << >>
    /\ dest = None
    /\ remote = [content |-> << >>, etag |-> << "", << >> >>]
    /\ rr = ClientIdle
    /\ cf = ClientIdle
    /\ cache_dir = [final |-> None, tmp |-> None]
    /\ cc = ServiceNone
    /\ disk = [kind |-> "missing", entries |-> {}, free_bytes |-> 0]
    /\ ac = ServiceNone
    /\ \E min_unused_days \in {0, 1} :
          tc = TokCleanIdle([enabled |-> TRUE, min_unused_days |-> min_unused_days], None)
    /\ \E now \in Days, mtime \in Days :
          /\ mtime <= now
          /\ tok = [kind |-> "dir",
                    dirs |-> {TokenizerEntry(RunTokenizerId, TRUE, mtime)},
                    runs |-> {}, now |-> now]

NextTokRace ==
    \/ \E run_id \in RunIds : submit_train_job(run_id)
    \/ process_train_job_start
    \/ \E ts \in Times : process_train_job_heartbeat(ts)
    \/ process_train_job_tokenizer
    \/ \E ts \in Times : train_prepared_gpt2_loop(ts)
    \/ train_prepared_gpt2_manifest
    \/ process_train_job_result
    \/ process_train_job_completed
    \/ process_train_job_save
    \/ process_train_job_except
    \/ process_train_job_reraise
    \/ tok_clean_call
    \/ \E fault \in {"", "stat", "rmtree"} : tok_clean_loop(fault)
    \/ tok_clean_return

SpecTokRace == InitTokRace /\ [][NextTokRace]_vars

\* C33: tokenizer cleanup never removes the directory of the tokenizer that
\* a train job waiting in the queue or being executed is configured to use.
C33_CleanupSparesTokenizerInUse ==
    [][(\E e \in tok.dirs : e.name = RunTokenizerId /\ e \notin tok'.dirs)
          => (queue = << >> /\ w.pc = "idle")]_vars

\* C35: when an execution of process_eval_job returns or raises, the record
\* runs:eval:{run_id} has status completed or failed.
C35_EvalJobEndsTerminal ==
    [][(/\ last'.op = "worker"
        /\ last'.fn = "process_eval_job"
        /\ last'.outcome \in {"returned", "raised"}
        /\ w.pc # "idle") =>
          /\ EvalOf(store', last'.run_id) # None
          /\ EvalOf(store', last'.run_id)[1].status \in {"completed", "failed"}]_vars

\* ======================================================================
\* CorpusFetcher.fetch against a healthy data bank, called again and again
\* after an earlier fetch left a temp file behind.
\* ======================================================================
\* What a failed or interrupted fetch can leave in {file_id}.tmp: nothing,
\* or any bytes up to the longest temp file.
Leftovers == {None} \cup {Some(d) : d \in UNION {[1..n -> Bytes] : n \in 0..MaxTemp}}

\* The data bank's answer to GET with the Range header `range` for a file
\* `content`: the whole file, the rest of it from the offset on, or 416 when
\* the offset is not inside the file.
healthy_get(content, range) ==
    IF range = None THEN [status_code |-> 200, data |-> content]
    ELSE IF range[1] < Len(content)
    THEN [status_code |-> 206, data |-> SubSeq(content, range[1] + 1, Len(content))]
    ELSE [status_code |-> 416, data |-> << >>]

\* No final cache file, a leftover temp file, and the file in the data bank.
InitFetchAgain ==
    /\ registry = None
    /\ store = << >>
    /\ queue = << >>
    /\ rundirs = {}
    /\ weights = {}
    /\ manifests = {}
    /\ api = ApiIdle
    /\ w = WorkerIdle
    /\ last = [op |-> "init"]
    /\ dbc = ClientIdle
    /\ http = << >>
    /\ dest = None
    /\ rr = ClientIdle
    /\ cf = ClientIdle
    /\ \E leftover \in Leftovers : cache_dir = [final |-> None, tmp |-> leftover]
    /\ cc = ServiceNone
    /\ disk = [kind |-> "missing", entries |-> {}, free_bytes |-> 0]
    /\ tc = ServiceNone
    /\ tok = [kind |-> "missing", dirs |-> {}, runs |-> {}, now |-> 0]
    /\ ac = ServiceNone
    /\ \E content \in Contents :
          remote = [content |-> content, etag |-> Sha256(content)]

\* Every request is answered, and answered correctly; no process is killed.
NextFetchAgain ==
    \/ fetch_call
    \/ fetch_head_response(200, TRUE)
    \/ fetch_get_response(healthy_get(remote.content, fetch_range(cf)).status_code,
                          healthy_get(remote.content, fetch_range(cf)).data, FALSE)
    \/ fetch_promote
    \/ fetch_return

\* fetch is called again whenever it has returned or raised.
SpecFetchAgain == InitFetchAgain /\ [][NextFetchAgain]_vars /\ WF_vars(NextFetchAgain)

\* C36: whatever the leftover temp file is, fetches against a healthy data
\* bank eventually install the remote content as the final cache file.
C36_LeftoverTempEventuallyFetched ==
    <>(cache_dir.final = Some(remote.content))

\* ======================================================================
\* Two processes in CorpusFetcher.fetch for the same file_id and cache
\* directory (TokenizerOrchestrator.enqueue_training, line 59, and
\* process_tokenizer_train_job, line 67), against a healthy data bank.
\* Here cf maps each process to its call, and cache_dir names files by
\* inode: final and tmp are None or Some(inode), inodes[i] is the content
\* of inode i.  A file object keeps its inode when the path is renamed.
\* A byte of the model stands for one chunk of iter_bytes.
\* ======================================================================
Fetchers == {1, 2}

\* The byte a write past the end of a file leaves in the gap.
Hole == "0"

FetchProc(pc, expected_size, start, fd, mode, offset, pending, error) ==
    [pc |-> pc, expected_size |-> expected_size, start |-> start, fd |-> fd,
     mode |-> mode, offset |-> offset, pending |-> pending, error |-> error]

FetchProcIdle == FetchProc("idle", 0, 0, 0, "", 0, << >>, "")

FetchProcDone(c, error) ==
    FetchProc("done", c.expected_size, c.start, 0, "", 0, << >>, error)

\* path.exists() and the content behind a path.
path_exists(dir, name) == dir[name] # None
path_content(dir, name) == dir.inodes[dir[name][1]]

\* f.write(chunk) on a file opened "ab" (every write goes to the end) or
\* "wb" (the write goes to the file object's own offset).
write_chunk(content, mode, offset, chunk) ==
    IF mode = "ab" THEN Append(content, chunk)
    ELSE IF offset < Len(content)
    THEN [content EXCEPT ![offset + 1] = chunk]
    ELSE content \o [i \in 1..(offset - Len(content)) |-> Hole] \o << chunk >>

fetchVarsRest == << dbc, http, dest, rr, cc, disk, tc, tok, ac >>

\* lines 37-40: the cache check.
fetch_proc_call(p) ==
    /\ cf[p].pc = "idle"
    /\ cf' = [cf EXCEPT ![p] =
                IF path_exists(cache_dir, "final")
                THEN FetchProcDone(cf[p], "")
                ELSE FetchProc("head", 0, 0, 0, "", 0, << >>, "")]
    /\ UNCHANGED << cache_dir, remote >>
    /\ UNCHANGED fetchVarsRest
    /\ UNCHANGED runVars

\* lines 52-64: HEAD, expected_size, and the size of the temp file.
fetch_proc_head(p) ==
    /\ cf[p].pc = "head"
    /\ cf' = [cf EXCEPT ![p] =
                FetchProc("open", Len(remote.content),
                          IF path_exists(cache_dir, "tmp")
                          THEN Len(path_content(cache_dir, "tmp")) ELSE 0,
                          0, "", 0, << >>, "")]
    /\ UNCHANGED << cache_dir, remote >>
    /\ UNCHANGED fetchVarsRest
    /\ UNCHANGED runVars

\* lines 65-83: the GET with its Range header, raise_for_status, and
\* temp_path.open("ab") or temp_path.open("wb"), which creates the file or
\* (for "wb") truncates the one that is there.
fetch_proc_open(p) ==
    /\ cf[p].pc = "open"
    /\ LET c == cf[p]
           answer == healthy_get(remote.content, fetch_range(c))
           mode == IF c.start > 0 THEN "ab" ELSE "wb"
           created == ~path_exists(cache_dir, "tmp")
           inode == IF created THEN Len(cache_dir.inodes) + 1 ELSE cache_dir.tmp[1]
       IN IF answer.status_code >= 400
          THEN /\ cf' = [cf EXCEPT ![p] = FetchProcDone(c, "HTTPStatusError")]
               /\ UNCHANGED cache_dir
          ELSE /\ cache_dir' =
                    IF created
                    THEN [cache_dir EXCEPT !.tmp = Some(inode),
                                           !.inodes = Append(@, << >>)]
                    ELSE IF mode = "wb"
                    THEN [cache_dir EXCEPT !.inodes[inode] = << >>]
                    ELSE cache_dir
               /\ cf' = [cf EXCEPT ![p] =
                           FetchProc("write", c.expected_size, c.start, inode,
                                     mode, 0, answer.data, "")]
    /\ UNCHANGED remote
    /\ UNCHANGED fetchVarsRest
    /\ UNCHANGED runVars

\* lines 80-85: f.write(chunk) for the next chunk, or the end of the
\* stream and the close of the file.
fetch_proc_write(p) ==
    /\ cf[p].pc = "write"
    /\ LET c == cf[p] IN
       IF c.pending = << >>
       THEN /\ cf' = [cf EXCEPT ![p] =
                        FetchProc("check", c.expected_size, c.start, 0, "", 0,
                                  << >>, "")]
            /\ UNCHANGED cache_dir
       ELSE /\ cache_dir' = [cache_dir EXCEPT !.inodes[c.fd] =
                                write_chunk(@, c.mode, c.offset, Head(c.pending))]
            /\ cf' = [cf EXCEPT ![p].offset = @ + 1, ![p].pending = Tail(@)]
    /\ UNCHANGED remote
    /\ UNCHANGED fetchVarsRest
    /\ UNCHANGED runVars

\* lines 87-98: temp_path.stat().st_size against expected_size.
fetch_proc_check(p) ==
    /\ cf[p].pc = "check"
    /\ cf' = [cf EXCEPT ![p] =
                IF ~path_exists(cache_dir, "tmp")
                THEN FetchProcDone(cf[p], "FileNotFoundError")
                ELSE IF Len(path_content(cache_dir, "tmp")) # cf[p].expected_size
                THEN FetchProcDone(cf[p], "RuntimeError")
                ELSE [cf[p] EXCEPT !.pc = "rename"]]
    /\ UNCHANGED << cache_dir, remote >>
    /\ UNCHANGED fetchVarsRest
    /\ UNCHANGED runVars

\* line 100: temp_path.replace(cache_path)
fetch_proc_rename(p) ==
    /\ cf[p].pc = "rename"
    /\ IF ~path_exists(cache_dir, "tmp")
       THEN /\ cf' = [cf EXCEPT ![p] = FetchProcDone(cf[p], "FileNotFoundError")]
            /\ UNCHANGED cache_dir
       ELSE /\ cache_dir' = [cache_dir EXCEPT !.final = cache_dir.tmp, !.tmp = None]
            /\ cf' = [cf EXCEPT ![p] = FetchProcDone(cf[p], "")]
    /\ UNCHANGED remote
    /\ UNCHANGED fetchVarsRest
    /\ UNCHANGED runVars

\* An empty cache directory, a file in the data bank, two idle processes.
InitFetchPair ==
    /\ registry = None
    /\ store = << >>
    /\ queue = << >>
    /\ rundirs = {}
    /\ weights = {}
    /\ manifests = {}
    /\ api = ApiIdle
    /\ w = WorkerIdle
    /\ last = [op |-> "init"]
    /\ dbc = ClientIdle
    /\ http = << >>
    /\ dest = None
    /\ rr = ClientIdle
    /\ cf = [p \in Fetchers |-> FetchProcIdle]
    /\ cache_dir = [final |-> None, tmp |-> None, inodes |-> << >>]
    /\ cc = ServiceNone
    /\ disk = [kind |-> "missing", entries |-> {}, free_bytes |-> 0]
    /\ tc = ServiceNone
    /\ tok = [kind |-> "missing", dirs |-> {}, runs |-> {}, now |-> 0]
    /\ ac = ServiceNone
    /\ \E content \in Contents :
          remote = [content |-> content, etag |-> Sha256(content)]

NextFetchPair ==
    \/ \E p \in Fetchers : fetch_proc_call(p)
    \/ \E p \in Fetchers : fetch_proc_head(p)
    \/ \E p \in Fetchers : fetch_proc_open(p)
    \/ \E p \in Fetchers : fetch_proc_write(p)
    \/ \E p \in Fetchers : fetch_proc_check(p)
    \/ \E p \in Fetchers : fetch_proc_rename(p)

SpecFetchPair == InitFetchPair /\ [][NextFetchPair]_vars

\* C37: whenever the final cache file exists, it holds exactly the remote
\* content.
C37_ConcurrentFetchFinalCorrect ==
    path_exists(cache_dir, "final") => path_content(cache_dir, "final") = remote.content

\* ------------------------------------------------ orchestrator-fed pipeline
\* The deployment in which every job on the queue was put there by the
\* orchestrator: enqueue_training and enqueue_evaluation feed the queue, the
\* worker takes the jobs off it, and clients poll get_status and
\* get_evaluation. No producer writes to the queue directly, so a train job
\* carries the payload of TrainPayload (process_train_job raises on it before
\* any write) and no run ever gets a manifest.
NextOrch ==
    \/ \E req \in TrainRequests, ts \in Times : enqueue_training_begin(req, ts)
    \/ enqueue_training_end
    \/ \E run_id \in RunIds : get_status_begin(run_id)
    \/ get_status_end
    \/ \E run_id \in RunIds, req \in EvaluateRequests :
          enqueue_evaluation_begin(run_id, req)
    \/ enqueue_evaluation_end
    \/ \E run_id \in RunIds : get_evaluation(run_id)
    \/ process_train_job_start
    \/ process_eval_job_start
    \/ process_eval_job_manifest

SpecOrch == Init /\ [][NextOrch]_vars

\* C38: a run_id that enqueue_training returns has not been returned by an
\* earlier enqueue_training call: when the call writes the queued status of
\* its run and returns, the run has no status record yet (in this deployment
\* only a returning enqueue_training call creates the status record of a run).
C38_RunIdsNeverRepeat ==
    [][(api.pc = "train_enqueued" /\ last'.op = "enqueue_training"
        /\ last'.error = "")
          => StatusOf(store, last'.run_id) = None]_vars

\* C39: a call of enqueue_training or enqueue_evaluation that fails because
\* the broker is unreachable changes neither the state store nor the queue
\* (a run without a status record still has none, an evaluation record is
\* what it was); a handler goes on to its write only when the queue has
\* taken the job of this run, and a record becomes queued only in that write.
C39_FailedEnqueueWritesNothing ==
    [][/\ (api.pc = "idle"
           /\ last'.op \in {"enqueue_training", "enqueue_evaluation"}
           /\ last'.error = "BROKER_UNREACHABLE")
            => /\ store' = store
               /\ queue' = queue
               /\ api' = api
       /\ (api.pc = "idle" /\ last'.op = "enqueue_training_enqueued")
            => /\ store' = store
               /\ Len(queue') = Len(queue) + 1
               /\ queue'[Len(queue')].kind = "train"
               /\ queue'[Len(queue')].run_id = last'.run_id
               /\ api'.pc = "train_enqueued"
               /\ api'.run_id = last'.run_id
       /\ (api.pc = "idle" /\ last'.op = "enqueue_evaluation_enqueued")
            => /\ store' = store
               /\ Len(queue') = Len(queue) + 1
               /\ queue'[Len(queue')].kind = "eval"
               /\ queue'[Len(queue')].run_id = last'.run_id
               /\ api'.pc = "eval_enqueued"
               /\ api'.run_id = last'.run_id
       /\ \A run_id \in RunIds :
            /\ (StatusOf(store', run_id) = Some("queued")
                /\ StatusOf(store, run_id) # Some("queued"))
                 => (api.pc = "train_enqueued" /\ api.run_id = run_id)
            /\ (EvalOf(store', run_id) # EvalOf(store, run_id)
                /\ EvalOf(store', run_id) # None
                /\ EvalOf(store', run_id)[1].status = "queued")
                 => (api.pc = "eval_enqueued" /\ api.run_id = run_id)]_vars

\* C39 witness: enqueue_evaluation has just failed on an unreachable broker
\* for a run whose earlier evaluation has failed; the record of that
\* evaluation is still in the store and the queue is empty.
C39_Witness ==
    /\ last.op = "enqueue_evaluation"
    /\ last.error = "BROKER_UNREACHABLE"
    /\ EvalOf(store, last.run_id) # None
    /\ EvalOf(store, last.run_id)[1].status = "failed"
    /\ queue = << >>

\* ------------------------------------------- runs cancelled before training
\* Train jobs of runs whose cancellation was requested (or not) before any
\* job is taken off the queue: cancel_run has written the flag of the runs in
\* `flagged`, and no cancel_run call follows, so a flag that is set has been
\* set since before the worker entered the training loop and stays set.
InitCancelled ==
    /\ ClientsInit
    /\ registry = None
    /\ \E flagged \in SUBSET RunIds :
          store = [k \in {CancelKey(run_id) : run_id \in flagged} |-> "1"]
    /\ queue = << >>
    /\ rundirs = {}
    /\ weights = {}
    /\ manifests = {}
    /\ api = ApiIdle
    /\ w = WorkerIdle
    /\ last = [op |-> "init"]

NextCancelled ==
    \/ \E run_id \in RunIds : submit_train_job(run_id)
    \/ process_train_job_start
    \/ \E ts \in Times : process_train_job_heartbeat(ts)
    \/ process_train_job_prepare
    \/ \E ts \in Times : train_prepared_gpt2_loop(ts)
    \/ train_prepared_gpt2_finish
    \/ process_train_job_result
    \/ process_train_job_cancelled
    \/ process_train_job_completed
    \/ process_train_job_save
    \/ process_train_job_except
    \/ process_train_job_reraise

SpecCancelled == InitCancelled /\ [][NextCancelled]_vars

====
